---- MODULE Spec2Model ----
(***************************************************************************)
(* Capture synchronisation core of the dual ESP32 camera firmware.         *)
(*                                                                         *)
(*   Spec        the slave (src/unnamed/part_002): the HTTP server task    *)
(*               running capture_handler / prepare_slave_capture, and the  *)
(*               UDP sync task running udp_sync_task / start_slave_capture *)
(*               / run_slave_capture, sharing the capture slot.            *)
(*   MasterSpec  the master (src/main/app_main.c): capture_handler and     *)
(*               run_capture_sequence with udp_sync_metrics and the START  *)
(*               exchange, against a slave reached over a network with     *)
(*               latency and a slave clock offset.                         *)
(*                                                                         *)
(* Datagram payloads are sequences of one-character strings, so that the   *)
(* prefix matching, strtoll / sscanf parsing and snprintf formatting of    *)
(* the code are computed rather than assumed.                              *)
(***************************************************************************)
EXTENDS Integers, Sequences, FiniteSets, TLC

(***************************************************************************)
(* Bounds of the model                                                     *)
(***************************************************************************)
\* slave: datagrams are received while the slave clock is below this value
MaxNow == 2000
\* slave: amount by which the clock advances when other work runs
TickUs == 1000

(***************************************************************************)
(* Text helpers: C strings as sequences of characters                      *)
(***************************************************************************)
Digits == <<"0", "1", "2", "3", "4", "5", "6", "7", "8", "9">>

IsDigit(c) == \E i \in 1..10 : Digits[i] = c

DigitVal(c) == (CHOOSE i \in 1..10 : Digits[i] = c) - 1

IsSpace(c) == c \in {" ", "\t", "\n"}

\* strncmp(buf, lit, n) == 0 for a literal of length n
HasPrefix(buf, lit) == Len(buf) >= Len(lit) /\ SubSeq(buf, 1, Len(lit)) = lit

RECURSIVE SkipSpace(_)
SkipSpace(s) == IF s # << >> /\ IsSpace(Head(s)) THEN SkipSpace(Tail(s)) ELSE s

RECURSIVE DigitsValue(_, _)
DigitsValue(s, acc) ==
    IF s # << >> /\ IsDigit(Head(s))
    THEN DigitsValue(Tail(s), acc * 10 + DigitVal(Head(s)))
    ELSE acc

\* strtoll(buf, &end, 10) / sscanf(buf, "%lld", ..): leading white space, an
\* optional sign, then the longest run of digits; trailing text is ignored.
\* ok is FALSE when no digit was converted (end == buf, sscanf() != 1).
ScanInt64(s) ==
    LET t == SkipSpace(s)
        signed == t # << >> /\ Head(t) \in {"-", "+"}
        u == IF signed THEN Tail(t) ELSE t
        ok == u # << >> /\ IsDigit(Head(u))
        mag == DigitsValue(u, 0)
    IN  [ok |-> ok,
         value |-> IF ~ok THEN 0 ELSE IF signed /\ Head(t) = "-" THEN 0 - mag ELSE mag]

parse_int64_payload(buf) == ScanInt64(buf)

RECURSIVE FormatNat(_)
FormatNat(n) ==
    IF n < 10 THEN <<Digits[n + 1]>>
    ELSE Append(FormatNat(n \div 10), Digits[(n % 10) + 1])

\* snprintf(buf, size, "%lld", n)
FormatInt64(n) == IF n < 0 THEN <<"-">> \o FormatNat(0 - n) ELSE FormatNat(n)

\* C integer division truncates toward zero
CDiv(a, b) == IF a >= 0 THEN a \div b ELSE 0 - ((0 - a) \div b)

READY == <<"R", "E", "A", "D", "Y">>
START == <<"S", "T", "A", "R", "T">>
OK == <<"O", "K">>
NO == <<"N", "O">>
ACK == <<"A", "C", "K">>
ERR == <<"E", "R", "R">>

\* snprintf(payload, size, "START %lld", delay)
FormatStart(delay) == START \o <<" ">> \o FormatInt64(delay)

UpperCase == <<"A", "B", "C", "D", "E", "F", "G", "H", "I", "J", "K", "L", "M",
               "N", "O", "P", "Q", "R", "S", "T", "U", "V", "W", "X", "Y", "Z">>

LowerCase == <<"a", "b", "c", "d", "e", "f", "g", "h", "i", "j", "k", "l", "m",
               "n", "o", "p", "q", "r", "s", "t", "u", "v", "w", "x", "y", "z">>

tolower(c) ==
    IF \E i \in 1..Len(UpperCase) : UpperCase[i] = c
    THEN LowerCase[CHOOSE i \in 1..Len(UpperCase) : UpperCase[i] = c]
    ELSE c

\* strcasecmp(a, b) == 0
SameIgnoringCase(a, b) ==
    Len(a) = Len(b) /\ \A i \in 1..Len(a) : tolower(a[i]) = tolower(b[i])

(***************************************************************************)
(* State                                                                   *)
(***************************************************************************)
VARIABLES
    \* ---- slave: capture slot and its mutex
    s_capture_ready,        \* prepared, waiting for START
    s_capture_in_progress,  \* a launched capture is running
    s_capture_req,          \* the stored slave_capture_request_t
    s_capture_mutex,        \* "free", or the task holding it: "http" / "udp"
    \* ---- slave: stream flags and camera, as far as prepare touches them
    s_stream_enabled,
    s_stream_stop_requested,
    s_cam,                  \* [inited, fmt, fs] of the slave camera
    \* ---- slave: HTTP server task (capture_handler)
    httpPc,
    httpReq,                \* arguments of the prepare_slave_capture call
    httpResp,               \* last HTTP reply of capture_handler
    \* ---- slave: UDP sync task
    udpPc,
    rx_buf,                 \* datagram being handled
    udp_resp,               \* reply chosen by the START branch
    can_start,
    delay_us,
    replied,                \* the reply to rx_buf has been passed to sendto
    udp_tx,                 \* payload of the last sendto
    req_copy,               \* start_slave_capture's copy of the slot request
    start_time_us,
    frame_i,                \* loop index of run_slave_capture
    frames_pulled,          \* frames obtained from the camera in this capture
    slave_now,              \* esp_timer_get_time() on the slave
    \* ---- master: build configuration and the network to the slave
    allow_missing,          \* CAPSEQ_SLAVE_MISSING_OK
    net_lat,                \* one-way latency of an undisturbed datagram
    clk_off,                \* slave clock minus master clock
    net_script,             \* per ping, the outcomes the network can produce
    sl_state,               \* slave seen from the master: unarmed / armed / launched
    sl_start_time_us,       \* deadline of the launched slave capture (slave clock)
    start_retries,          \* CONFIG_CAPSEQ_SYNC_START_RETRIES of the build
    \* ---- master: capture task in run_capture_sequence
    mPc,
    m_req,                  \* the capture_request_t
    m_cam,                  \* [inited, fmt, fs] of the master camera
    m_now,                  \* esp_timer_get_time() on the master (reference time)
    elapsed,                \* udp_slave_wait_ready
    slave_ready,
    sync_err,
    ping_i,                 \* udp_sync_metrics loop index
    rtt_sum,
    disparity_sum,
    samples,
    metrics,                \* capseq_sync_metrics_t
    pings,                  \* what happened to each ping of the running probe
    probe_result,           \* "none", or how udp_sync_metrics ended: ok / failed
    calc,                   \* the delays computed by run_capture_sequence
    attempt,                \* udp_slave_start_with_retry loop index
    start_tx,               \* payloads of the START datagrams sent
    start_acked_at,         \* attempt index that received ACK, -1 if none
    start_rx,               \* per attempt, the reply received (<< >>: none)
    wait_from,              \* clock value read when the wait began
    m_start_time_us,
    m_frame_i,
    files_persisted,
    frames_failed,
    m_frames_pulled,        \* esp_camera_fb_get calls made for the request
    cam_before,             \* m_cam when the sequence was entered
    sensor_budget,          \* POST /api/sensor requests the client still makes
    \* ---- master: capture_handler invocations, the capture queue, capture_task
    h_state,                \* per request: none / sending / waiting / replied
    h_waited,               \* ms spent blocked in the running xQueueSend
    h_resp,                 \* HTTP reply of the handler
    h_busy_on_arrival,      \* unanswered request: a sequence ran when it arrived
    s_capture_queue,        \* requests in the queue, oldest first
    task_req,               \* request capture_task is running, 0 when it waits
    task_err,               \* "running", or what run_capture_sequence returned
    task_step,              \* steps of the running sequence completed
    executed,               \* requests whose sequence was started
    \* ---- naming of a persisted frame (both firmwares)
    n_pc,
    n_dev,                  \* firmware that handles the request: master / slave
    n_value,                \* value of the pixel_format key, << >> when absent
    n_session,              \* session name of the request
    n_fmt,                  \* pixformat_t of the request
    n_path,                 \* path of the frame file written last
    \* ---- master: streaming, sensor endpoint and camera
    m_stream_enabled,       \* s_stream_enabled of the master
    m_stream_in_progress,   \* s_stream_in_progress of the master
    m_stream_stop_requested, \* s_stream_stop_requested of the master
    strPc,                  \* stream_handler on the task of s_stream_httpd
    str_resp,               \* outcome of the last GET /stream
    webPc,                  \* the handler running on the task of s_httpd
    capPc,                  \* capture_task inside run_capture_sequence
    waited_ms,              \* local of stop_stream_and_wait
    flag_writers,           \* per flag, the tasks that have written it
    stop_seen,              \* a flag asked the running loop to stop
    late_pulls,             \* esp_camera_fb_get calls of the loop since then
    \* ---- slave: streaming and sensor endpoint
    sStrPc,                 \* stream_handler of the slave
    s_stream_in_progress,
    \* ---- the wait for the deadline (both firmwares)
    w_pc,
    w_dev,                  \* firmware whose wait loop runs: master / slave
    w_delay,                \* master_start_delay_us / start_delay_us
    w_now,                  \* esp_timer_get_time()
    w_from,                 \* the clock when the wait started
    w_start_time_us,        \* start_time_us
    w_pull_at,              \* the clock at the first esp_camera_fb_get, -1 before
    \* ---- master: udp_slave_wait_ready
    p_pc,
    p_timeout_ms,           \* timeout_ms
    p_poll_ms,              \* poll_ms
    p_elapsed,              \* elapsed
    p_polls,                \* calls of udp_slave_ready_check so far
    p_last,                 \* what the last READY exchange brought
    p_ret,                  \* return value, "none" before the return
    \* ---- queue-based variants: capture task and writer / UDP stream task
    q_variant,              \* "writer" (capture-only) or "udp" (RGB565 streamer)
    q_capPc,                \* capture_task
    q_conPc,                \* writer_task / udp_stream_task
    q_queue,                \* frameQueue / s_frame_queue
    q_fb,                   \* fb of capture_task, 0 when it holds none
    q_item,                 \* fb / item.fb of the receiving task, 0 when none
    q_obtained,             \* frames esp_camera_fb_get has handed out
    q_returned,             \* esp_camera_fb_return calls per frame
    q_stop_capture,         \* stop_capture
    q_stream_enabled,       \* s_stream_enabled of the UDP streamer
    q_client_valid,         \* s_client_valid
    q_frame_index,          \* frame_index
    q_max_frames,           \* max_frames
    q_capacity              \* frames the card holds

slotVars == <<s_capture_ready, s_capture_in_progress, s_capture_req>>
streamVars == <<s_stream_enabled, s_stream_stop_requested>>
httpVars == <<httpPc, httpReq, httpResp>>
udpLocals == <<udp_resp, can_start, delay_us, req_copy, start_time_us, frame_i, frames_pulled>>
udpVars == <<udpPc, rx_buf, replied, udp_tx, udpLocals>>
slaveVars == <<slotVars, s_capture_mutex, streamVars, s_cam, httpVars, udpVars, slave_now>>

netVars == <<allow_missing, net_lat, clk_off, net_script, sl_state, sl_start_time_us,
             start_retries>>
probeVars == <<ping_i, rtt_sum, disparity_sum, samples, metrics, pings, probe_result>>
startVars == <<attempt, start_tx, start_acked_at, start_rx>>
recordVars == <<m_frame_i, files_persisted, frames_failed, m_frames_pulled>>
sensorVars == <<cam_before, sensor_budget>>
masterVars == <<netVars, mPc, m_req, m_cam, m_now, elapsed, slave_ready, sync_err,
                probeVars, calc, startVars, wait_from, m_start_time_us, recordVars,
                sensorVars>>

handlerVars == <<h_state, h_waited, h_resp, h_busy_on_arrival>>
taskVars == <<task_req, task_err, task_step, executed>>
frontVars == <<handlerVars, s_capture_queue, taskVars>>

nameVars == <<n_pc, n_dev, n_value, n_session, n_fmt, n_path>>

\* the state of the parts that the capture core specifications leave alone
mStreamVars == <<m_stream_enabled, m_stream_in_progress, m_stream_stop_requested,
                 strPc, str_resp, webPc, capPc, waited_ms, flag_writers, stop_seen,
                 late_pulls>>

sStreamVars == <<sStrPc, s_stream_in_progress>>

\* the slave without its stream flags and its camera
slaveRest == <<slotVars, s_capture_mutex, httpVars, udpVars, slave_now>>

\* the master capture core without its camera
masterButCam == <<netVars, mPc, m_req, m_now, elapsed, slave_ready, sync_err,
                  probeVars, calc, startVars, wait_from, m_start_time_us, recordVars,
                  sensorVars>>

waitVars == <<w_pc, w_dev, w_delay, w_now, w_from, w_start_time_us, w_pull_at>>

pollVars == <<p_pc, p_timeout_ms, p_poll_ms, p_elapsed, p_polls, p_last, p_ret>>

frameVars == <<q_variant, q_capPc, q_conPc, q_queue, q_fb, q_item, q_obtained, q_returned,
               q_stop_capture, q_stream_enabled, q_client_valid, q_frame_index,
               q_max_frames, q_capacity>>

lateVars == <<pollVars, frameVars>>

extVars == <<nameVars, mStreamVars, sStreamVars, waitVars, lateVars>>

vars == <<slaveVars, masterVars, frontVars, extVars>>

(***************************************************************************)
(* Slave: values                                                           *)
(***************************************************************************)
\* static slave_capture_request_t s_capture_req; (zero initialised)
ZeroRequest == [session |-> "", frame_count |-> 0, fs |-> "ZERO", fmt |-> "ZERO",
                need_reinit |-> FALSE]

\* DEFAULT_FRAME_SIZE / DEFAULT_PIXEL_FORMAT of the slave
SlaveDefaultCam == [inited |-> TRUE, fmt |-> "JPEG", fs |-> "SVGA"]

\* parameters a prepare request can carry after the query string was parsed
\* (frame_count as given, before capture_handler normalises it)
PrepareInputs ==
    { [session |-> "a", frame_count |-> 0, fs |-> "QVGA", fmt |-> "JPEG"],
      [session |-> "b", frame_count |-> 2, fs |-> "QVGA", fmt |-> "RGB565"] }

\* datagrams the sync port can receive
Datagrams ==
    { READY,
      READY \o <<"?">>,
      START,
      FormatStart(0),
      FormatStart(2100),
      START \o <<" ", "-", "1">>,
      <<"7">>,
      <<"a", "b", "c">> }

CaptureStates == {"launch_take", "launch_check", "run_init", "run_wait",
                  "run_frames", "run_restore", "finish_take", "finish_clear"}

(***************************************************************************)
(* Slave: initial state (after app_main: camera initialised, stream        *)
(* disabled, mutex created, both tasks waiting for input)                  *)
(***************************************************************************)
SlaveInit ==
    /\ s_capture_ready = FALSE
    /\ s_capture_in_progress = FALSE
    /\ s_capture_req = ZeroRequest
    /\ s_capture_mutex = "free"
    /\ s_stream_enabled = FALSE
    /\ s_stream_stop_requested = FALSE
    /\ s_cam = SlaveDefaultCam
    /\ httpPc = "idle"
    /\ httpReq = ZeroRequest
    /\ httpResp = "none"
    /\ udpPc = "recv"
    /\ rx_buf = << >>
    /\ udp_resp = << >>
    /\ can_start = FALSE
    /\ delay_us = 0
    /\ replied = TRUE
    /\ udp_tx = << >>
    /\ req_copy = ZeroRequest
    /\ start_time_us = 0
    /\ frame_i = 0
    /\ frames_pulled = 0
    /\ slave_now = 0

(***************************************************************************)
(* Slave: HTTP server task.  Both capture routes are registered on the one *)
(* server s_httpd, whose single task runs one handler at a time.           *)
(***************************************************************************)
\* capture_handler up to the call of prepare_slave_capture
HttpCaptureRequest ==
    /\ httpPc = "idle"
    /\ \E in \in PrepareInputs :
          httpReq' = [session |-> in.session,
                      frame_count |-> IF in.frame_count <= 0 THEN 1 ELSE in.frame_count,
                      fs |-> in.fs,
                      fmt |-> in.fmt,
                      need_reinit |-> FALSE]
    /\ httpPc' = "prep_take1"
    /\ httpResp' = "none"
    /\ UNCHANGED <<slotVars, s_capture_mutex, streamVars, s_cam, udpVars, slave_now>>
    /\ UNCHANGED masterVars
    /\ UNCHANGED frontVars
    /\ UNCHANGED extVars

\* xSemaphoreTake(s_capture_mutex, 1000 ms) of the first section; the take
\* fails only while another task holds the mutex
PrepTake1 ==
    /\ httpPc = "prep_take1"
    /\ \/ /\ s_capture_mutex = "free"
          /\ s_capture_mutex' = "http"
          /\ httpPc' = "prep_check"
          /\ UNCHANGED <<httpResp, httpReq>>
       \/ /\ s_capture_mutex # "free"
          /\ httpPc' = "idle"
          /\ httpResp' = "409 capture prep failed"
          /\ httpReq' = ZeroRequest
          /\ UNCHANGED s_capture_mutex
    /\ UNCHANGED <<slotVars, streamVars, s_cam, udpVars, slave_now>>
    /\ UNCHANGED masterVars
    /\ UNCHANGED frontVars
    /\ UNCHANGED extVars

SlotBusy_ReadyOnly == s_capture_ready

\* if (s_capture_ready || s_capture_in_progress)
SlotBusy == s_capture_ready \/ s_capture_in_progress

PrepCheck_KeepsMutex ==
    /\ httpPc = "prep_check"
    /\ IF SlotBusy
       THEN /\ httpPc' = "idle"
            /\ httpResp' = "409 capture busy"
            /\ httpReq' = ZeroRequest
            /\ s_capture_mutex' = "free"
       ELSE /\ httpPc' = "prep_quiesce"
            /\ UNCHANGED <<httpResp, httpReq, s_capture_mutex>>
    /\ UNCHANGED <<slotVars, streamVars, s_cam, udpVars, slave_now>>
    /\ UNCHANGED masterVars
    /\ UNCHANGED frontVars
    /\ UNCHANGED extVars

\* the first section of prepare_slave_capture: the busy check, and the
\* mutex is given back on both paths
PrepCheck ==
    /\ httpPc = "prep_check"
    /\ s_capture_mutex' = "free"
    /\ IF SlotBusy
       THEN /\ httpPc' = "idle"
            /\ httpResp' = "409 capture busy"
            /\ httpReq' = ZeroRequest
       ELSE /\ httpPc' = "prep_quiesce"
            /\ UNCHANGED <<httpResp, httpReq>>
    /\ UNCHANGED <<slotVars, streamVars, s_cam, udpVars, slave_now>>
    /\ UNCHANGED masterVars
    /\ UNCHANGED frontVars
    /\ UNCHANGED extVars

PrepQuiesce ==
    /\ httpPc = "prep_quiesce"
    /\ s_stream_enabled' = FALSE
    /\ s_stream_stop_requested' = TRUE
    /\ httpPc' = "prep_camera"
    /\ UNCHANGED <<slotVars, s_capture_mutex, s_cam, httpReq, httpResp, udpVars, slave_now>>
    /\ UNCHANGED masterVars
    /\ UNCHANGED frontVars
    /\ UNCHANGED extVars

\* reinit for a non-JPEG format (which can fail), in-place sensor update
\* otherwise; then the sensor settings of the query and the dropped frames
PrepCamera ==
    /\ httpPc = "prep_camera"
    /\ LET need_reinit == httpReq.fmt # "JPEG"
           armed == [httpReq EXCEPT !.need_reinit = need_reinit] IN
       IF need_reinit
       THEN \/ /\ s_cam' = [inited |-> TRUE, fmt |-> httpReq.fmt, fs |-> httpReq.fs]
               /\ httpPc' = "prep_take2"
               /\ httpReq' = armed
               /\ UNCHANGED httpResp
            \/ /\ s_cam' = [inited |-> FALSE, fmt |-> "NONE", fs |-> "NONE"]
               /\ httpPc' = "idle"
               /\ httpResp' = "409 capture prep failed"
               /\ httpReq' = ZeroRequest
       ELSE /\ s_cam' = IF s_cam.inited
                        THEN [inited |-> TRUE, fmt |-> httpReq.fmt, fs |-> httpReq.fs]
                        ELSE s_cam
            /\ httpPc' = "prep_take2"
            /\ httpReq' = armed
            /\ UNCHANGED httpResp
    /\ UNCHANGED <<slotVars, s_capture_mutex, streamVars, udpVars, slave_now>>
    /\ UNCHANGED masterVars
    /\ UNCHANGED frontVars
    /\ UNCHANGED extVars

PrepTake2 ==
    /\ httpPc = "prep_take2"
    /\ \/ /\ s_capture_mutex = "free"
          /\ s_capture_mutex' = "http"
          /\ httpPc' = "prep_store"
          /\ UNCHANGED <<httpResp, httpReq>>
       \/ /\ s_capture_mutex # "free"
          /\ httpPc' = "idle"
          /\ httpResp' = "409 capture prep failed"
          /\ httpReq' = ZeroRequest
          /\ UNCHANGED s_capture_mutex
    /\ UNCHANGED <<slotVars, streamVars, s_cam, udpVars, slave_now>>
    /\ UNCHANGED masterVars
    /\ UNCHANGED frontVars
    /\ UNCHANGED extVars

PrepStore ==
    /\ httpPc = "prep_store"
    /\ s_capture_req' = httpReq
    /\ s_capture_ready' = TRUE
    /\ s_capture_mutex' = "free"
    /\ httpPc' = "idle"
    /\ httpResp' = "200 OK"
    /\ httpReq' = ZeroRequest
    /\ UNCHANGED <<s_capture_in_progress, streamVars, s_cam, udpVars, slave_now>>
    /\ UNCHANGED masterVars
    /\ UNCHANGED frontVars
    /\ UNCHANGED extVars

(***************************************************************************)
(* Slave: UDP sync task (udp_sync_task).  One datagram is handled at a     *)
(* time; the task receives the next one only after the handler returned.   *)
(***************************************************************************)
\* the locals of a handler that has returned
UdpLocalsDead ==
    /\ udp_resp' = << >>
    /\ can_start' = FALSE
    /\ delay_us' = 0
    /\ req_copy' = ZeroRequest
    /\ start_time_us' = 0
    /\ frame_i' = 0
    /\ frames_pulled' = 0

\* sscanf(rx_buf + 5, "%lld", &delay_us) == 1 and delay_us >= 0
StartDelayGood(buf) ==
    LET p == ScanInt64(SubSeq(buf, 6, Len(buf))) IN p.ok /\ p.value >= 0

SlotArmed == s_capture_ready /\ ~s_capture_in_progress

\* xSemaphoreTake(s_capture_mutex, 0): succeeds only when no task holds it;
\* the flags are then read and the mutex is given back at once
TryReadArmed == s_capture_mutex = "free" /\ SlotArmed

\* the reply udp_sync_task chooses for a datagram, given what the
\* non-blocking look at the slot returned and the slave clock
udp_sync_reply(buf, armed, now_us) ==
    IF HasPrefix(buf, READY) THEN (IF armed THEN OK ELSE NO)
    ELSE IF HasPrefix(buf, START)
         THEN (IF StartDelayGood(buf) /\ armed THEN ACK ELSE NO)
    ELSE IF parse_int64_payload(buf).ok THEN FormatInt64(now_us)
    ELSE ERR

\* READY branch: reply OK / NO
UdpReady_ClearsReady ==
    /\ udpPc = "recv"
    /\ slave_now < MaxNow
    /\ \E d \in Datagrams :
          /\ HasPrefix(d, READY)
          /\ rx_buf' = d
    /\ udp_tx' = udp_sync_reply(rx_buf', TryReadArmed, slave_now)
    /\ s_capture_ready' = FALSE
    /\ replied' = TRUE
    /\ UNCHANGED <<s_capture_in_progress, s_capture_req, s_capture_mutex, streamVars,
                   s_cam, httpVars, udpPc, udpLocals, slave_now>>
    /\ UNCHANGED masterVars
    /\ UNCHANGED frontVars
    /\ UNCHANGED extVars

UdpReady ==
    /\ udpPc = "recv"
    /\ slave_now < MaxNow
    /\ \E d \in Datagrams :
          /\ HasPrefix(d, READY)
          /\ rx_buf' = d
    /\ udp_tx' = udp_sync_reply(rx_buf', TryReadArmed, slave_now)
    /\ replied' = TRUE
    /\ UNCHANGED <<slotVars, s_capture_mutex, streamVars, s_cam, httpVars, udpPc,
                   udpLocals, slave_now>>
    /\ UNCHANGED masterVars
    /\ UNCHANGED frontVars
    /\ UNCHANGED extVars

AfterStartCheck_LaunchFirst(can) == IF can THEN "launch_take" ELSE "start_reply"

\* the reply is passed to sendto before start_slave_capture is called
AfterStartCheck(can) == "start_reply"

\* START branch up to the choice of the reply: sscanf of the text after the
\* prefix, then the non-blocking look at the slot
UdpStart ==
    /\ udpPc = "recv"
    /\ slave_now < MaxNow
    /\ \E d \in Datagrams :
          /\ ~HasPrefix(d, READY)
          /\ HasPrefix(d, START)
          /\ rx_buf' = d
          /\ LET p == ScanInt64(SubSeq(d, 6, Len(d)))
                 resp == udp_sync_reply(d, TryReadArmed, slave_now)
             IN  /\ delay_us' = IF p.ok THEN p.value ELSE 0
                 /\ can_start' = (resp = ACK)
                 /\ udp_resp' = resp
                 /\ udpPc' = AfterStartCheck(resp = ACK)
    /\ replied' = FALSE
    /\ UNCHANGED <<slotVars, s_capture_mutex, streamVars, s_cam, httpVars, udp_tx,
                   req_copy, start_time_us, frame_i, frames_pulled, slave_now>>
    /\ UNCHANGED masterVars
    /\ UNCHANGED frontVars
    /\ UNCHANGED extVars

\* sendto(sock, resp, ...) of the START branch
UdpStartReply ==
    /\ udpPc = "start_reply"
    /\ udp_tx' = udp_resp
    /\ replied' = TRUE
    /\ IF can_start
       THEN /\ udpPc' = "launch_take"
            /\ UNCHANGED udpLocals
       ELSE /\ udpPc' = "recv"
            /\ UdpLocalsDead
    /\ UNCHANGED <<slotVars, s_capture_mutex, streamVars, s_cam, httpVars, rx_buf,
                   slave_now>>
    /\ UNCHANGED masterVars
    /\ UNCHANGED frontVars
    /\ UNCHANGED extVars

\* start_slave_capture: xSemaphoreTake(s_capture_mutex, 1000 ms)
UdpLaunchTake ==
    /\ udpPc = "launch_take"
    /\ \/ /\ s_capture_mutex = "free"
          /\ s_capture_mutex' = "udp"
          /\ udpPc' = "launch_check"
          /\ UNCHANGED udpLocals
       \/ /\ s_capture_mutex # "free"
          /\ udpPc' = "recv"
          /\ UdpLocalsDead
          /\ UNCHANGED s_capture_mutex
    /\ UNCHANGED <<slotVars, streamVars, s_cam, httpVars, rx_buf, replied, udp_tx,
                   slave_now>>
    /\ UNCHANGED masterVars
    /\ UNCHANGED frontVars
    /\ UNCHANGED extVars

UdpLaunchCheck_KeepsReady ==
    /\ udpPc = "launch_check"
    /\ s_capture_mutex' = "free"
    /\ IF ~s_capture_ready \/ s_capture_in_progress
       THEN /\ udpPc' = "recv"
            /\ UdpLocalsDead
            /\ UNCHANGED slotVars
       ELSE /\ s_capture_in_progress' = TRUE
            /\ req_copy' = s_capture_req
            /\ udpPc' = "run_init"
            /\ UNCHANGED <<s_capture_ready, s_capture_req, udp_resp, can_start, delay_us,
                           start_time_us, frame_i, frames_pulled>>
    /\ UNCHANGED <<streamVars, s_cam, httpVars, rx_buf, replied, udp_tx, slave_now>>
    /\ UNCHANGED masterVars
    /\ UNCHANGED frontVars
    /\ UNCHANGED extVars

\* start_slave_capture: the check and the flip under the mutex
UdpLaunchCheck ==
    /\ udpPc = "launch_check"
    /\ s_capture_mutex' = "free"
    /\ IF ~s_capture_ready \/ s_capture_in_progress
       THEN /\ udpPc' = "recv"
            /\ UdpLocalsDead
            /\ UNCHANGED slotVars
       ELSE /\ s_capture_in_progress' = TRUE
            /\ s_capture_ready' = FALSE
            /\ req_copy' = s_capture_req
            /\ udpPc' = "run_init"
            /\ UNCHANGED <<s_capture_req, udp_resp, can_start, delay_us, start_time_us,
                           frame_i, frames_pulled>>
    /\ UNCHANGED <<streamVars, s_cam, httpVars, rx_buf, replied, udp_tx, slave_now>>
    /\ UNCHANGED masterVars
    /\ UNCHANGED frontVars
    /\ UNCHANGED extVars

\* run_slave_capture: start_time_us = esp_timer_get_time() + start_delay_us
UdpRunInit ==
    /\ udpPc = "run_init"
    /\ start_time_us' = slave_now + delay_us
    /\ frame_i' = 0
    /\ frames_pulled' = 0
    /\ udpPc' = "run_wait"
    /\ UNCHANGED <<slotVars, s_capture_mutex, streamVars, s_cam, httpVars, rx_buf,
                   replied, udp_tx, udp_resp, can_start, delay_us, req_copy, slave_now>>
    /\ UNCHANGED masterVars
    /\ UNCHANGED frontVars
    /\ UNCHANGED extVars

\* one pass of the wait loop: leave it at the deadline, sleep whole
\* milliseconds while more than 2 ms remain, busy-wait 100 us otherwise
UdpRunWait ==
    /\ udpPc = "run_wait"
    /\ LET remaining_us == start_time_us - slave_now IN
       IF remaining_us <= 0
       THEN /\ udpPc' = "run_frames"
            /\ UNCHANGED slave_now
       ELSE /\ slave_now' = IF remaining_us > 2000
                            THEN slave_now + (remaining_us \div 1000) * 1000
                            ELSE slave_now + 100
            /\ UNCHANGED udpPc
    /\ UNCHANGED <<slotVars, s_capture_mutex, streamVars, s_cam, httpVars, rx_buf,
                   replied, udp_tx, udpLocals>>
    /\ UNCHANGED masterVars
    /\ UNCHANGED frontVars
    /\ UNCHANGED extVars

\* one pass of the frame loop: esp_camera_fb_get can fail, the frame is then
\* skipped; the loop ends after frame_count passes
UdpRunFrame ==
    /\ udpPc = "run_frames"
    /\ IF frame_i < req_copy.frame_count
       THEN /\ frame_i' = frame_i + 1
            /\ \E got \in BOOLEAN :
                  frames_pulled' = IF got /\ s_cam.inited THEN frames_pulled + 1
                                   ELSE frames_pulled
            /\ UNCHANGED udpPc
       ELSE /\ udpPc' = "run_restore"
            /\ UNCHANGED <<frame_i, frames_pulled>>
    /\ UNCHANGED <<slotVars, s_capture_mutex, streamVars, s_cam, httpVars, rx_buf,
                   replied, udp_tx, udp_resp, can_start, delay_us, req_copy,
                   start_time_us, slave_now>>
    /\ UNCHANGED masterVars
    /\ UNCHANGED frontVars
    /\ UNCHANGED extVars

\* restore of the JPEG default after a capture that reinitialised the camera
UdpRunRestore ==
    /\ udpPc = "run_restore"
    /\ IF req_copy.need_reinit
       THEN \E ok \in BOOLEAN :
               s_cam' = IF ok THEN SlaveDefaultCam
                        ELSE [inited |-> FALSE, fmt |-> "NONE", fs |-> "NONE"]
       ELSE UNCHANGED s_cam
    /\ udpPc' = "finish_take"
    /\ UNCHANGED <<slotVars, s_capture_mutex, streamVars, httpVars, rx_buf, replied,
                   udp_tx, udpLocals, slave_now>>
    /\ UNCHANGED masterVars
    /\ UNCHANGED frontVars
    /\ UNCHANGED extVars

\* start_slave_capture after the run: xSemaphoreTake(s_capture_mutex, 1000 ms)
UdpFinishTake ==
    /\ udpPc = "finish_take"
    /\ \/ /\ s_capture_mutex = "free"
          /\ s_capture_mutex' = "udp"
          /\ udpPc' = "finish_clear"
          /\ UNCHANGED udpLocals
       \/ /\ s_capture_mutex # "free"
          /\ udpPc' = "recv"
          /\ UdpLocalsDead
          /\ UNCHANGED s_capture_mutex
    /\ UNCHANGED <<slotVars, streamVars, s_cam, httpVars, rx_buf, replied, udp_tx,
                   slave_now>>
    /\ UNCHANGED masterVars
    /\ UNCHANGED frontVars
    /\ UNCHANGED extVars

UdpFinishClear ==
    /\ udpPc = "finish_clear"
    /\ s_capture_in_progress' = FALSE
    /\ s_capture_mutex' = "free"
    /\ udpPc' = "recv"
    /\ UdpLocalsDead
    /\ UNCHANGED <<s_capture_ready, s_capture_req, streamVars, s_cam, httpVars, rx_buf,
                   replied, udp_tx, slave_now>>
    /\ UNCHANGED masterVars
    /\ UNCHANGED frontVars
    /\ UNCHANGED extVars

\* clock probe: a datagram that parses as an integer is answered with the
\* slave's clock
UdpProbe ==
    /\ udpPc = "recv"
    /\ slave_now < MaxNow
    /\ \E d \in Datagrams :
          /\ ~HasPrefix(d, READY)
          /\ ~HasPrefix(d, START)
          /\ parse_int64_payload(d).ok
          /\ rx_buf' = d
    /\ udp_tx' = udp_sync_reply(rx_buf', TryReadArmed, slave_now)
    /\ replied' = TRUE
    /\ UNCHANGED <<slotVars, s_capture_mutex, streamVars, s_cam, httpVars, udpPc,
                   udpLocals, slave_now>>
    /\ UNCHANGED masterVars
    /\ UNCHANGED frontVars
    /\ UNCHANGED extVars

\* any other datagram
UdpOther ==
    /\ udpPc = "recv"
    /\ slave_now < MaxNow
    /\ \E d \in Datagrams :
          /\ ~HasPrefix(d, READY)
          /\ ~HasPrefix(d, START)
          /\ ~parse_int64_payload(d).ok
          /\ rx_buf' = d
    /\ udp_tx' = udp_sync_reply(rx_buf', TryReadArmed, slave_now)
    /\ replied' = TRUE
    /\ UNCHANGED <<slotVars, s_capture_mutex, streamVars, s_cam, httpVars, udpPc,
                   udpLocals, slave_now>>
    /\ UNCHANGED masterVars
    /\ UNCHANGED frontVars
    /\ UNCHANGED extVars

\* the slave clock advances while the tasks do other work
SlaveTick ==
    /\ slave_now < MaxNow
    /\ slave_now' = slave_now + TickUs
    /\ UNCHANGED <<slotVars, s_capture_mutex, streamVars, s_cam, httpVars, udpVars>>
    /\ UNCHANGED masterVars
    /\ UNCHANGED frontVars
    /\ UNCHANGED extVars

(***************************************************************************)
(* Master: configuration (src/main/app_main.c, second firmware variant)    *)
(***************************************************************************)
CONFIG_CAPSEQ_SYNC_SAFETY_MS == 1000
CONFIG_CAPSEQ_SYNC_UDP_PINGS == 5
CONFIG_CAPSEQ_SLAVE_READY_TIMEOUT_MS == 5000
CONFIG_CAPSEQ_SLAVE_READY_POLL_MS == 200
CONFIG_CAPSEQ_SYNC_START_RETRIES == 3
CONFIG_CAPSEQ_SYNC_START_RETRY_DELAY_MS == 100
\* receive timeout set by udp_open_slave_socket(&ctx, 300)
UDP_TIMEOUT_MS == 300
\* esp_rom_delay_us(100) of the wait loops
BUSY_WAIT_US == 100

\* warm-up frames pulled and returned after the reinit
CONFIG_CAPSEQ_DROP_FRAMES == 5

\* POST /api/sensor requests a client makes before the capture request
MaxSensorPosts == 1

\* start-retries values of the builds considered: the default and one less
StartRetriesBuilds ==
    {CONFIG_CAPSEQ_SYNC_START_RETRIES, CONFIG_CAPSEQ_SYNC_START_RETRIES - 1}

\* keyword values of the framesize and pixel_format keys
qqvga == <<"q", "q", "v", "g", "a">>
qvga == <<"q", "v", "g", "a">>
vga == <<"v", "g", "a">>
svga == <<"s", "v", "g", "a">>
xga == <<"x", "g", "a">>
sxga == <<"s", "x", "g", "a">>
uxga == <<"u", "x", "g", "a">>
jpeg == <<"j", "p", "e", "g">>
rgb565 == <<"r", "g", "b", "5", "6", "5">>
grayscale == <<"g", "r", "a", "y", "s", "c", "a", "l", "e">>
yuv422 == <<"y", "u", "v", "4", "2", "2">>

\* bodies of POST /api/sensor (form encoded, one pair)
SensorInputs ==
    { [key |-> "framesize", value |-> qvga],
      [key |-> "pixel_format", value |-> rgb565] }

\* framesize_t and pixformat_t of the camera driver in enumeration order
\* (the first name has the value 0); a number outside the enumeration is
\* kept as "INVALID"
FrameSizes == <<"96X96", "QQVGA", "QCIF", "HQVGA", "240X240", "QVGA", "CIF", "HVGA",
                "VGA", "SVGA", "XGA", "HD", "SXGA", "UXGA">>

PixFormats == <<"RGB565", "YUV422", "YUV420", "GRAYSCALE", "JPEG", "RGB888", "RAW",
                "RGB444", "RGB555">>

EnumName(names, n) == IF n + 1 \in DOMAIN names THEN names[n + 1] ELSE "INVALID"

\* parse_framesize of the master (DEFAULT_FRAME_SIZE is FRAMESIZE_VGA): a
\* value that starts with a digit is cast from atoi, a keyword is matched
\* without regard to case, anything else gives the default
parse_framesize(value) ==
    IF value = << >> THEN "VGA"
    ELSE IF IsDigit(Head(value)) THEN EnumName(FrameSizes, ScanInt64(value).value)
    ELSE IF SameIgnoringCase(value, qqvga) THEN "QQVGA"
    ELSE IF SameIgnoringCase(value, qvga) THEN "QVGA"
    ELSE IF SameIgnoringCase(value, vga) THEN "VGA"
    ELSE IF SameIgnoringCase(value, svga) THEN "SVGA"
    ELSE IF SameIgnoringCase(value, xga) THEN "XGA"
    ELSE IF SameIgnoringCase(value, sxga) THEN "SXGA"
    ELSE IF SameIgnoringCase(value, uxga) THEN "UXGA"
    ELSE "VGA"

\* parse_pixformat (DEFAULT_PIXEL_FORMAT is PIXFORMAT_JPEG on both firmwares)
parse_pixformat(value) ==
    IF value = << >> THEN "JPEG"
    ELSE IF IsDigit(Head(value)) THEN EnumName(PixFormats, ScanInt64(value).value)
    ELSE IF SameIgnoringCase(value, jpeg) THEN "JPEG"
    ELSE IF SameIgnoringCase(value, rgb565) THEN "RGB565"
    ELSE IF SameIgnoringCase(value, grayscale) THEN "GRAYSCALE"
    ELSE IF SameIgnoringCase(value, yuv422) THEN "YUV422"
    ELSE "JPEG"

\* master clock when the first request arrives
MasterBootUs == 5000000

\* one-way latencies of the network
Lats == {2000}

\* slave clock minus master clock
Offsets == {0, 10000, 3000000}

MasterDefaultCam == [inited |-> TRUE, fmt |-> "JPEG", fs |-> "VGA"]

NoCam == [inited |-> FALSE, fmt |-> "NONE", fs |-> "NONE"]

\* parameters of a capture request; ms is the cpu_time_to_start value
\* (atoll of the query value, -1 when the key is absent)
MasterInputs ==
    { [session |-> "s", frame_count |-> 3, fs |-> "VGA", fmt |-> "JPEG", ms |-> 50],
      [session |-> "s", frame_count |-> 3, fs |-> "VGA", fmt |-> "JPEG", ms |-> -1],
      [session |-> "t", frame_count |-> 0, fs |-> "QVGA", fmt |-> "RGB565", ms |-> 0] }

NoRequest == [session |-> "", frame_count |-> 0, fs |-> "ZERO", fmt |-> "ZERO",
              query_ms |-> -1, cpu_time_to_start_us |-> 0, result |-> "none",
              err_msg |-> ""]

NoCalc == [safety_overhead_us |-> 0, trip_time_us |-> 0, cpu_disparity_us |-> 0,
           slave_start_delay_us |-> 0, master_start_delay_us |-> 0]

NoMetrics == [trip_time_us |-> 0, cpu_disparity_us |-> 0]

\* what the network does to one ping: no reply within the timeout, a reply
\* that is not a number, or a reply after out + back microseconds that the
\* slave stamped out microseconds after the ping was sent
PingTimeout == [kind |-> "timeout", out |-> 0, back |-> 0]

PingMalformed(l) == [kind |-> "malformed", out |-> l, back |-> l]

PingOk(o, b) == [kind |-> "ok", out |-> o, back |-> b]

\* what may happen to the pings of a probe: none gets a usable reply, every
\* one gets an exact reply, or some fail and some replies come back late
NoReplyScript(l) ==
    [i \in 1..CONFIG_CAPSEQ_SYNC_UDP_PINGS |->
        IF i = 2 THEN {PingTimeout, PingMalformed(l)} ELSE {PingTimeout}]

ExactScript(l) ==
    [i \in 1..CONFIG_CAPSEQ_SYNC_UDP_PINGS |-> {PingOk(l, l)}]

MixedScript(l) ==
    [i \in 1..CONFIG_CAPSEQ_SYNC_UDP_PINGS |->
        IF i = 1 THEN {PingTimeout, PingOk(l, l)}
        ELSE IF i = 2 THEN {PingMalformed(l), PingOk(l, l), PingOk(l, 3 * l)}
        ELSE IF i = 4 THEN {PingOk(l, l), PingOk(l, 3 * l)}
        ELSE {PingOk(l, l)}]

GeneralScripts(l) == {NoReplyScript(l), ExactScript(l), MixedScript(l)}

\* scenario S1: four replies with the given round-trip times and one ping
\* without a usable reply; the slave stamp is the send time plus the offset
\* ("send") or the time at the middle of the round trip plus the offset ("mid")
S1 == [safety_ms |-> 50, offset |-> 10000, frame_count |-> 3,
       rtts |-> <<4000, 4200, 3800, 4000>>]

S1Script(failed_at, failure, stamp) ==
    [i \in 1..CONFIG_CAPSEQ_SYNC_UDP_PINGS |->
        IF i = failed_at THEN {failure}
        ELSE LET rtt == S1.rtts[IF i < failed_at THEN i ELSE i - 1] IN
             {IF stamp = "send" THEN PingOk(0, rtt) ELSE PingOk(rtt \div 2, rtt \div 2)}]

S1Scripts(stamp) ==
    { S1Script(k, f, stamp) :
        k \in {1, CONFIG_CAPSEQ_SYNC_UDP_PINGS}, f \in {PingTimeout, PingMalformed(2000)} }

(***************************************************************************)
(* Master: initial state                                                   *)
(***************************************************************************)
MasterInit ==
    /\ allow_missing \in BOOLEAN
    /\ net_lat \in Lats
    /\ clk_off \in Offsets
    /\ net_script \in GeneralScripts(net_lat)
                      \cup (IF clk_off = S1.offset
                            THEN S1Scripts("send") \cup S1Scripts("mid") ELSE {})
    /\ sl_state = "unarmed"
    /\ sl_start_time_us = 0
    /\ start_retries \in
          (IF net_script = ExactScript(net_lat) /\ clk_off = 0
           THEN StartRetriesBuilds ELSE {CONFIG_CAPSEQ_SYNC_START_RETRIES})
    /\ mPc = "idle"
    /\ m_req = NoRequest
    /\ m_cam = MasterDefaultCam
    /\ m_now = MasterBootUs
    /\ elapsed = 0
    /\ slave_ready = FALSE
    /\ sync_err = "none"
    /\ ping_i = 0
    /\ rtt_sum = 0
    /\ disparity_sum = 0
    /\ samples = 0
    /\ metrics = NoMetrics
    /\ pings = << >>
    /\ probe_result = "none"
    /\ calc = NoCalc
    /\ attempt = 0
    /\ start_tx = << >>
    /\ start_acked_at = -1
    /\ start_rx = << >>
    /\ wait_from = 0
    /\ m_start_time_us = 0
    /\ m_frame_i = 0
    /\ files_persisted = 0
    /\ frames_failed = 0
    /\ m_frames_pulled = 0
    /\ cam_before = MasterDefaultCam
    /\ sensor_budget \in
          (IF net_script = ExactScript(net_lat) /\ clk_off = 0 /\ ~allow_missing
           THEN {0, MaxSensorPosts} ELSE {0})

\* the master is not part of the slave specification
MasterOff ==
    /\ allow_missing = FALSE
    /\ net_lat = 0
    /\ clk_off = 0
    /\ net_script = << >>
    /\ sl_state = "unarmed"
    /\ sl_start_time_us = 0
    /\ start_retries = CONFIG_CAPSEQ_SYNC_START_RETRIES
    /\ mPc = "off"
    /\ m_req = NoRequest
    /\ m_cam = MasterDefaultCam
    /\ m_now = 0
    /\ elapsed = 0
    /\ slave_ready = FALSE
    /\ sync_err = "none"
    /\ ping_i = 0
    /\ rtt_sum = 0
    /\ disparity_sum = 0
    /\ samples = 0
    /\ metrics = NoMetrics
    /\ pings = << >>
    /\ probe_result = "none"
    /\ calc = NoCalc
    /\ attempt = 0
    /\ start_tx = << >>
    /\ start_acked_at = -1
    /\ start_rx = << >>
    /\ wait_from = 0
    /\ m_start_time_us = 0
    /\ m_frame_i = 0
    /\ files_persisted = 0
    /\ frames_failed = 0
    /\ m_frames_pulled = 0
    /\ cam_before = MasterDefaultCam
    /\ sensor_budget = 0

(***************************************************************************)
(* Master: capture_handler and run_capture_sequence                        *)
(***************************************************************************)
CAPSEQ_SLAVE_MISSING_OK_Never == FALSE

CAPSEQ_SLAVE_MISSING_OK_Always == TRUE

\* whether the build lets a capture go on without the slave
CAPSEQ_SLAVE_MISSING_OK == allow_missing

\* capture_handler: the request is built from the query and handed to the
\* capture task
MCaptureHandler ==
    /\ mPc = "idle"
    /\ \E in \in MasterInputs :
          m_req' = [session |-> in.session,
                    frame_count |-> IF in.frame_count <= 0 THEN 1 ELSE in.frame_count,
                    fs |-> in.fs,
                    fmt |-> in.fmt,
                    query_ms |-> in.ms,
                    cpu_time_to_start_us |-> IF in.ms > 0 THEN in.ms * 1000 ELSE 0,
                    result |-> "none",
                    err_msg |-> ""]
    /\ mPc' = "prepare"
    /\ UNCHANGED <<netVars, m_cam, m_now, elapsed, slave_ready, sync_err, probeVars,
                   calc, startVars, wait_from, m_start_time_us, m_frame_i,
                   files_persisted, frames_failed>>
    /\ cam_before' = m_cam
    /\ m_frames_pulled' = 0
    /\ UNCHANGED sensor_budget
    /\ UNCHANGED slaveVars
    /\ UNCHANGED frontVars
    /\ UNCHANGED extVars

\* stream stopped, prepare request sent to the slave (which arms it when it
\* is accepted; a failure is only logged), settle delay
MPrepare ==
    /\ mPc = "prepare"
    /\ \E accepted \in BOOLEAN :
          sl_state' = IF accepted THEN "armed" ELSE sl_state
    /\ mPc' = "reinit"
    /\ UNCHANGED <<allow_missing, net_lat, clk_off, net_script, sl_start_time_us,
                   start_retries>>
    /\ UNCHANGED <<m_req, m_cam, m_now, elapsed, slave_ready, sync_err, probeVars,
                   calc, startVars, wait_from, m_start_time_us, recordVars>>
    /\ UNCHANGED sensorVars
    /\ UNCHANGED slaveVars
    /\ UNCHANGED frontVars
    /\ UNCHANGED extVars

\* esp_camera_deinit, ISR service removed, power cycle
MDeinit ==
    /\ mPc = "reinit"
    /\ m_cam' = NoCam
    /\ mPc' = "reinit_init"
    /\ UNCHANGED <<netVars, m_req, m_now, elapsed, slave_ready, sync_err, probeVars,
                   calc, startVars, wait_from, m_start_time_us, recordVars>>
    /\ UNCHANGED sensorVars
    /\ UNCHANGED slaveVars
    /\ UNCHANGED frontVars
    /\ UNCHANGED extVars

\* init_camera_with_format; then the sensor settings of the query (which name
\* the format and size just initialised) and the warm-up frames
MReinit ==
    /\ mPc = "reinit_init"
    /\ \/ /\ m_cam' = [inited |-> TRUE, fmt |-> m_req.fmt, fs |-> m_req.fs]
          /\ m_frames_pulled' = m_frames_pulled + CONFIG_CAPSEQ_DROP_FRAMES
          /\ mPc' = "wait_ready"
          /\ UNCHANGED m_req
       \/ /\ m_cam' = NoCam
          /\ m_req' = [m_req EXCEPT !.err_msg = "camera init failed", !.result = "ESP_FAIL"]
          /\ mPc' = "done"
          /\ UNCHANGED m_frames_pulled
    /\ elapsed' = 0
    /\ UNCHANGED <<netVars, m_now, slave_ready, sync_err, probeVars,
                   calc, startVars, wait_from, m_start_time_us, m_frame_i,
                   files_persisted, frames_failed>>
    /\ UNCHANGED sensorVars
    /\ UNCHANGED slaveVars
    /\ UNCHANGED frontVars
    /\ UNCHANGED extVars

\* one pass of udp_slave_wait_ready, or its end by timeout and what
\* run_capture_sequence does with the result; elapsed is a local of
\* udp_slave_wait_ready and is gone when it returns
MReadyPoll ==
    /\ mPc = "wait_ready"
    /\ IF elapsed <= CONFIG_CAPSEQ_SLAVE_READY_TIMEOUT_MS
       THEN \E net \in {"reply", "lost", "resolve_failed"} :
               LET reply == udp_sync_reply(READY, sl_state = "armed",
                                           m_now + net_lat + clk_off)
                   err == IF net = "resolve_failed" THEN "ESP_FAIL"
                          ELSE IF net = "lost" THEN "ESP_ERR_TIMEOUT"
                          ELSE IF HasPrefix(reply, OK) THEN "ESP_OK"
                          ELSE "ESP_FAIL"
               IN  IF err = "ESP_OK"
                   THEN /\ slave_ready' = TRUE
                        /\ sync_err' = "ESP_OK"
                        /\ mPc' = "probe_open"
                        /\ elapsed' = 0
                        /\ UNCHANGED m_req
                   ELSE /\ elapsed' = elapsed + CONFIG_CAPSEQ_SLAVE_READY_POLL_MS
                        /\ UNCHANGED <<slave_ready, sync_err, mPc, m_req>>
       ELSE /\ sync_err' = "ESP_ERR_TIMEOUT"
            /\ slave_ready' = FALSE
            /\ elapsed' = 0
            /\ IF ~CAPSEQ_SLAVE_MISSING_OK
               THEN /\ m_req' = [m_req EXCEPT !.err_msg = "slave not ready",
                                              !.result = "ESP_FAIL"]
                    /\ mPc' = "done"
               ELSE /\ mPc' = "compute"
                    /\ UNCHANGED m_req
    /\ UNCHANGED <<netVars, m_cam, m_now, probeVars, calc, startVars, wait_from,
                   m_start_time_us, recordVars>>
    /\ UNCHANGED sensorVars
    /\ UNCHANGED slaveVars
    /\ UNCHANGED frontVars
    /\ UNCHANGED extVars

\* udp_sync_metrics up to the loop: metrics zeroed, socket opened
MProbeOpen ==
    /\ mPc = "probe_open"
    /\ metrics' = NoMetrics
    /\ ping_i' = 0
    /\ rtt_sum' = 0
    /\ disparity_sum' = 0
    /\ samples' = 0
    /\ pings' = << >>
    /\ \/ /\ mPc' = "probe_ping"
          /\ UNCHANGED <<sync_err, probe_result>>
       \/ /\ mPc' = "probed"
          /\ sync_err' = "ESP_FAIL"
          /\ probe_result' = "failed"
    /\ UNCHANGED <<netVars, m_req, m_cam, m_now, elapsed, slave_ready, calc, startVars,
                   wait_from, m_start_time_us, recordVars>>
    /\ UNCHANGED sensorVars
    /\ UNCHANGED slaveVars
    /\ UNCHANGED frontVars
    /\ UNCHANGED extVars

SampleAccepted_AnyReply(err, reply) == err = "ESP_OK"

\* a ping counts when udp_send_and_recv returned ESP_OK and the reply parses
SampleAccepted(err, reply) == err = "ESP_OK" /\ parse_int64_payload(reply).ok

\* one pass of the ping loop
MProbePing ==
    /\ mPc = "probe_ping"
    /\ ping_i < CONFIG_CAPSEQ_SYNC_UDP_PINGS
    /\ \E o \in net_script[ping_i + 1] :
          LET send_time == m_now
              payload == FormatInt64(send_time)
              stamp == send_time + o.out + clk_off
              err == IF o.kind = "timeout" THEN "ESP_ERR_TIMEOUT" ELSE "ESP_OK"
              reply == IF o.kind = "timeout" THEN << >>
                       ELSE IF o.kind = "malformed" THEN ERR
                       ELSE udp_sync_reply(payload, sl_state = "armed", stamp)
              recv_time == IF o.kind = "timeout"
                           THEN send_time + UDP_TIMEOUT_MS * 1000
                           ELSE send_time + o.out + o.back
              slave_time == parse_int64_payload(reply).value
              rtt_us == recv_time - send_time
              master_at_slave == send_time + CDiv(rtt_us, 2)
              disparity_us == master_at_slave - slave_time
              taken == SampleAccepted(err, reply)
          IN  /\ m_now' = recv_time
              /\ rtt_sum' = IF taken THEN rtt_sum + rtt_us ELSE rtt_sum
              /\ disparity_sum' = IF taken THEN disparity_sum + disparity_us
                                  ELSE disparity_sum
              /\ samples' = IF taken THEN samples + 1 ELSE samples
              /\ pings' = Append(pings, [kind |-> o.kind, send |-> send_time,
                                         recv |-> recv_time, stamp |-> stamp])
    /\ ping_i' = ping_i + 1
    /\ UNCHANGED <<netVars, mPc, m_req, m_cam, elapsed, slave_ready, sync_err, metrics,
                   probe_result,
                   calc, startVars, wait_from, m_start_time_us, recordVars>>
    /\ UNCHANGED sensorVars
    /\ UNCHANGED slaveVars
    /\ UNCHANGED frontVars
    /\ UNCHANGED extVars

\* end of udp_sync_metrics
MProbeFinish ==
    /\ mPc = "probe_ping"
    /\ ping_i = CONFIG_CAPSEQ_SYNC_UDP_PINGS
    /\ IF samples = 0
       THEN /\ sync_err' = "ESP_FAIL"
            /\ probe_result' = "failed"
            /\ UNCHANGED metrics
       ELSE /\ sync_err' = "ESP_OK"
            /\ probe_result' = "ok"
            /\ metrics' = [trip_time_us |-> CDiv(CDiv(rtt_sum, samples), 2),
                           cpu_disparity_us |-> CDiv(disparity_sum, samples)]
    /\ mPc' = "probed"
    /\ UNCHANGED <<netVars, m_req, m_cam, m_now, elapsed, slave_ready, ping_i, rtt_sum,
                   disparity_sum, samples, pings, calc, startVars, wait_from,
                   m_start_time_us, recordVars>>
    /\ UNCHANGED sensorVars
    /\ UNCHANGED slaveVars
    /\ UNCHANGED frontVars
    /\ UNCHANGED extVars

MProbeResult_KeepsReady ==
    /\ mPc = "probed"
    /\ IF sync_err # "ESP_OK"
       THEN /\ UNCHANGED slave_ready
            /\ IF ~CAPSEQ_SLAVE_MISSING_OK
               THEN /\ m_req' = [m_req EXCEPT !.err_msg = "udp sync failed",
                                              !.result = "ESP_FAIL"]
                    /\ mPc' = "done"
               ELSE /\ mPc' = "compute"
                    /\ UNCHANGED m_req
       ELSE /\ mPc' = "compute"
            /\ UNCHANGED <<slave_ready, m_req>>
    /\ ping_i' = 0
    /\ rtt_sum' = 0
    /\ disparity_sum' = 0
    /\ samples' = 0
    /\ pings' = << >>
    /\ UNCHANGED <<netVars, m_cam, m_now, elapsed, sync_err, metrics, probe_result, calc,
                   startVars,
                   wait_from, m_start_time_us, recordVars>>
    /\ UNCHANGED sensorVars
    /\ UNCHANGED slaveVars
    /\ UNCHANGED frontVars
    /\ UNCHANGED extVars

\* run_capture_sequence after udp_sync_metrics returned
MProbeResult ==
    /\ mPc = "probed"
    /\ IF sync_err # "ESP_OK"
       THEN /\ slave_ready' = FALSE
            /\ IF ~CAPSEQ_SLAVE_MISSING_OK
               THEN /\ m_req' = [m_req EXCEPT !.err_msg = "udp sync failed",
                                              !.result = "ESP_FAIL"]
                    /\ mPc' = "done"
               ELSE /\ mPc' = "compute"
                    /\ UNCHANGED m_req
       ELSE /\ mPc' = "compute"
            /\ UNCHANGED <<slave_ready, m_req>>
    /\ ping_i' = 0
    /\ rtt_sum' = 0
    /\ disparity_sum' = 0
    /\ samples' = 0
    /\ pings' = << >>
    /\ UNCHANGED <<netVars, m_cam, m_now, elapsed, sync_err, metrics, probe_result, calc,
                   startVars,
                   wait_from, m_start_time_us, recordVars>>
    /\ UNCHANGED sensorVars
    /\ UNCHANGED slaveVars
    /\ UNCHANGED frontVars
    /\ UNCHANGED extVars

SafetyOverheadUs_DefaultOnly(cpu_time_to_start_us) ==
    CONFIG_CAPSEQ_SYNC_SAFETY_MS * 1000

\* the safety overhead S: the request's override when positive, else the
\* configured default
SafetyOverheadUs(cpu_time_to_start_us) ==
    IF cpu_time_to_start_us > 0 THEN cpu_time_to_start_us
    ELSE CONFIG_CAPSEQ_SYNC_SAFETY_MS * 1000

ComputeDelays_NoClamp(cpu_time_to_start_us, ready, m) ==
    LET S == SafetyOverheadUs(cpu_time_to_start_us)
        trip == IF ready THEN m.trip_time_us ELSE 0
        disp == IF ready THEN m.cpu_disparity_us ELSE 0
    IN  [safety_overhead_us |-> S, trip_time_us |-> trip, cpu_disparity_us |-> disp,
         slave_start_delay_us |-> S, master_start_delay_us |-> S + trip + disp]

ComputeDelays_NoDisparity(cpu_time_to_start_us, ready, m) ==
    LET S == SafetyOverheadUs(cpu_time_to_start_us)
        trip == IF ready THEN m.trip_time_us ELSE 0
        disp == IF ready THEN m.cpu_disparity_us ELSE 0
        sum == S + trip
    IN  [safety_overhead_us |-> S, trip_time_us |-> trip, cpu_disparity_us |-> disp,
         slave_start_delay_us |-> S,
         master_start_delay_us |-> IF sum < 0 THEN 0 ELSE sum]

\* the two start delays
ComputeDelays(cpu_time_to_start_us, ready, m) ==
    LET S == SafetyOverheadUs(cpu_time_to_start_us)
        trip == IF ready THEN m.trip_time_us ELSE 0
        disp == IF ready THEN m.cpu_disparity_us ELSE 0
        sum == S + trip + disp
    IN  [safety_overhead_us |-> S, trip_time_us |-> trip, cpu_disparity_us |-> disp,
         slave_start_delay_us |-> S,
         master_start_delay_us |-> IF sum < 0 THEN 0 ELSE sum]

MCompute ==
    /\ mPc = "compute"
    /\ calc' = ComputeDelays(m_req.cpu_time_to_start_us, slave_ready, metrics)
    /\ attempt' = 0
    /\ mPc' = IF slave_ready THEN "start" ELSE "wait_init"
    /\ UNCHANGED <<netVars, m_req, m_cam, m_now, elapsed, slave_ready, sync_err,
                   probeVars, start_tx, start_acked_at, start_rx, wait_from,
                   m_start_time_us,
                   recordVars>>
    /\ UNCHANGED sensorVars
    /\ UNCHANGED slaveVars
    /\ UNCHANGED frontVars
    /\ UNCHANGED extVars

StartReplyOk_AnyReply(reply) == TRUE

\* udp_slave_start_capture: a received reply is a success when it begins
\* with ACK
StartReplyOk(reply) == HasPrefix(reply, ACK)

\* one pass of udp_slave_start_with_retry, or its failure after the last
\* attempt and what run_capture_sequence does with it.  The slave answers a
\* START that reaches it unless its sync task is inside a capture (NO when
\* its non-blocking look at the slot finds the mutex taken); an ACK launches
\* it with the deadline taken on its own clock
MStartAttempt ==
    /\ mPc = "start"
    /\ IF attempt < start_retries
       THEN \E net \in {"delivered", "lost", "reply_lost", "slot_locked"} :
               LET payload == FormatStart(calc.slave_start_delay_us)
                   handled == net # "lost" /\ sl_state # "launched"
                   slave_clock == m_now + net_lat + clk_off
                   armed == sl_state = "armed" /\ net # "slot_locked"
                   reply == udp_sync_reply(payload, armed, slave_clock)
                   launch == handled /\ reply = ACK
                   got == handled /\ net \in {"delivered", "slot_locked"}
                   err == IF ~got THEN "ESP_ERR_TIMEOUT"
                          ELSE IF StartReplyOk(reply) THEN "ESP_OK" ELSE "ESP_FAIL"
                   spent == IF got THEN 2 * net_lat ELSE UDP_TIMEOUT_MS * 1000
               IN  /\ start_tx' = Append(start_tx, payload)
                   /\ start_rx' = Append(start_rx, IF got THEN reply ELSE << >>)
                   /\ sl_state' = IF launch THEN "launched" ELSE sl_state
                   /\ sl_start_time_us' =
                         IF launch
                         THEN slave_clock + ScanInt64(SubSeq(payload, 6, Len(payload))).value
                         ELSE sl_start_time_us
                   /\ IF err = "ESP_OK"
                      THEN /\ start_acked_at' = attempt
                           /\ sync_err' = "ESP_OK"
                           /\ m_now' = m_now + spent
                           /\ mPc' = "wait_init"
                           /\ UNCHANGED attempt
                      ELSE /\ attempt' = attempt + 1
                           /\ m_now' = m_now + spent
                                       + CONFIG_CAPSEQ_SYNC_START_RETRY_DELAY_MS * 1000
                           /\ UNCHANGED <<start_acked_at, sync_err, mPc>>
                   /\ UNCHANGED m_req
       ELSE /\ sync_err' = "ESP_FAIL"
            /\ IF ~CAPSEQ_SLAVE_MISSING_OK
               THEN /\ m_req' = [m_req EXCEPT !.err_msg = "slave start failed",
                                              !.result = "ESP_FAIL"]
                    /\ mPc' = "done"
               ELSE /\ mPc' = "wait_init"
                    /\ UNCHANGED m_req
            /\ UNCHANGED <<sl_state, sl_start_time_us, m_now, startVars>>
    /\ UNCHANGED <<allow_missing, net_lat, clk_off, net_script, start_retries>>
    /\ UNCHANGED <<m_cam, elapsed, slave_ready, probeVars, calc, wait_from,
                   m_start_time_us, recordVars>>
    /\ UNCHANGED sensorVars
    /\ UNCHANGED slaveVars
    /\ UNCHANGED frontVars
    /\ UNCHANGED extVars

\* start_time_us = esp_timer_get_time() + master_start_delay_us
MWaitInit ==
    /\ mPc = "wait_init"
    /\ wait_from' = m_now
    /\ m_start_time_us' = m_now + calc.master_start_delay_us
    /\ mPc' = "wait"
    /\ UNCHANGED <<netVars, m_req, m_cam, m_now, elapsed, slave_ready, sync_err,
                   probeVars, calc, startVars, recordVars>>
    /\ UNCHANGED sensorVars
    /\ UNCHANGED slaveVars
    /\ UNCHANGED frontVars
    /\ UNCHANGED extVars

\* one pass of the wait loop
MWait ==
    /\ mPc = "wait"
    /\ LET remaining_us == m_start_time_us - m_now IN
          IF remaining_us <= 0
          THEN /\ mPc' = "record"
               /\ m_frame_i' = 0
               /\ UNCHANGED m_now
          ELSE /\ m_now' = IF remaining_us > 2000
                           THEN m_now + CDiv(remaining_us, 1000) * 1000
                           ELSE m_now + BUSY_WAIT_US
               /\ UNCHANGED <<mPc, m_frame_i>>
    /\ UNCHANGED <<netVars, m_req, m_cam, elapsed, slave_ready, sync_err, probeVars,
                   calc, startVars, wait_from, m_start_time_us, files_persisted,
                   frames_failed, m_frames_pulled>>
    /\ UNCHANGED sensorVars
    /\ UNCHANGED slaveVars
    /\ UNCHANGED frontVars
    /\ UNCHANGED extVars

\* one pass of the record loop
MRecordFrame ==
    /\ mPc = "record"
    /\ m_frame_i < m_req.frame_count
    /\ \E outcome \in {"written", "no_frame", "open_failed"} :
          IF outcome = "written"
          THEN /\ files_persisted' = files_persisted + 1
               /\ UNCHANGED frames_failed
          ELSE /\ frames_failed' = frames_failed + 1
               /\ UNCHANGED files_persisted
    /\ m_frame_i' = m_frame_i + 1
    /\ m_frames_pulled' = m_frames_pulled + 1
    /\ UNCHANGED <<netVars, mPc, m_req, m_cam, m_now, elapsed, slave_ready, sync_err,
                   probeVars, calc, startVars, wait_from, m_start_time_us>>
    /\ UNCHANGED sensorVars
    /\ UNCHANGED slaveVars
    /\ UNCHANGED frontVars
    /\ UNCHANGED extVars

\* restore: esp_camera_deinit, ISR service removed, power cycle
MRestoreDeinit ==
    /\ mPc = "record"
    /\ m_frame_i = m_req.frame_count
    /\ m_cam' = NoCam
    /\ mPc' = "restore_init"
    /\ UNCHANGED <<netVars, m_req, m_now, elapsed, slave_ready, sync_err, probeVars,
                   calc, startVars, wait_from, m_start_time_us, recordVars>>
    /\ UNCHANGED sensorVars
    /\ UNCHANGED slaveVars
    /\ UNCHANGED frontVars
    /\ UNCHANGED extVars

MRestore_ToPrevious ==
    /\ mPc = "restore_init"
    /\ m_cam' \in {cam_before, NoCam}
    /\ m_req' = [m_req EXCEPT !.result = "ESP_OK"]
    /\ mPc' = "done"
    /\ UNCHANGED <<netVars, m_now, elapsed, slave_ready, sync_err, probeVars, calc,
                   startVars, wait_from, m_start_time_us, recordVars>>
    /\ UNCHANGED sensorVars
    /\ UNCHANGED slaveVars
    /\ UNCHANGED frontVars
    /\ UNCHANGED extVars

\* restore: init_camera() brings the streaming default back, or fails and
\* is only logged; the sequence returns ESP_OK
MRestore ==
    /\ mPc = "restore_init"
    /\ m_cam' \in {MasterDefaultCam, NoCam}
    /\ m_req' = [m_req EXCEPT !.result = "ESP_OK"]
    /\ mPc' = "done"
    /\ UNCHANGED <<netVars, m_now, elapsed, slave_ready, sync_err, probeVars, calc,
                   startVars, wait_from, m_start_time_us, recordVars>>
    /\ UNCHANGED sensorVars
    /\ UNCHANGED slaveVars
    /\ UNCHANGED frontVars
    /\ UNCHANGED extVars

\* sensor_handler, form-encoded body: framesize and pixel_format are written
\* to the sensor with set_framesize / set_pixformat.  It runs on the HTTP
\* server task, which capture_handler occupies during a capture
MSensor ==
    /\ mPc = "idle"
    /\ sensor_budget > 0
    /\ m_cam.inited
    /\ \E body \in SensorInputs :
          m_cam' = IF body.key = "framesize"
                   THEN [m_cam EXCEPT !.fs = parse_framesize(body.value)]
                   ELSE IF body.key = "pixel_format"
                   THEN [m_cam EXCEPT !.fmt = parse_pixformat(body.value)]
                   ELSE m_cam
    /\ sensor_budget' = sensor_budget - 1
    /\ UNCHANGED cam_before
    /\ UNCHANGED <<netVars, mPc, m_req, m_now, elapsed, slave_ready, sync_err, probeVars,
                   calc, startVars, wait_from, m_start_time_us, recordVars>>
    /\ UNCHANGED slaveVars
    /\ UNCHANGED frontVars
    /\ UNCHANGED extVars

(***************************************************************************)
(* Master: capture_handler, the capture queue and capture_task             *)
(***************************************************************************)
\* xQueueCreate(2, sizeof(capture_request_t *))
CAPTURE_QUEUE_LEN == 2
\* xQueueSend(s_capture_queue, &cap, pdMS_TO_TICKS(1000))
QUEUE_SEND_TIMEOUT_MS == 1000

\* capture requests that clients may have in flight at once; a server that
\* runs its handlers one at a time produces the behaviours in which each
\* request arrives after the previous one was answered
MaxHandlers == 4
\* granularity at which a blocked xQueueSend is observed
SendTickMs == 1000

Handlers == 1..MaxHandlers

\* the steps of run_capture_sequence, in program order
SequenceSteps == <<"quiesce", "prepare", "reconfigure", "ready_poll", "probe",
                   "start", "wait", "record", "restore">>

\* the steps at which the sequence can return early, and the message it sets
StepFailure ==
    [reconfigure |-> "camera init failed", ready_poll |-> "slave not ready",
     probe |-> "udp sync failed", start |-> "slave start failed"]

FrontInit ==
    /\ h_state = [h \in Handlers |-> "none"]
    /\ h_waited = [h \in Handlers |-> 0]
    /\ h_resp = [h \in Handlers |-> ""]
    /\ h_busy_on_arrival = [h \in Handlers |-> FALSE]
    /\ s_capture_queue = << >>
    /\ task_req = 0
    /\ task_err = "running"
    /\ task_step = 0
    /\ executed = {}

\* capture_handler up to xQueueSend: query parsed, request allocated
\* (requests are numbered in their order of arrival)
HCaptureRequest(h) ==
    /\ h_state[h] = "none"
    /\ \A g \in Handlers : g < h => h_state[g] # "none"
    /\ h_state' = [h_state EXCEPT ![h] = "sending"]
    /\ h_busy_on_arrival' = [h_busy_on_arrival EXCEPT ![h] = (task_req # 0)]
    /\ UNCHANGED <<h_waited, h_resp, s_capture_queue, taskVars>>
    /\ UNCHANGED <<slaveVars, masterVars>>
    /\ UNCHANGED extVars

HSendOk_NoBound(h) ==
    /\ h_state[h] = "sending"
    /\ s_capture_queue' = Append(s_capture_queue, h)
    /\ h_state' = [h_state EXCEPT ![h] = "waiting"]
    /\ h_waited' = [h_waited EXCEPT ![h] = 0]
    /\ UNCHANGED <<h_resp, h_busy_on_arrival, taskVars>>
    /\ UNCHANGED <<slaveVars, masterVars>>
    /\ UNCHANGED extVars

\* xQueueSend finds room: the request is queued and the handler blocks on
\* cap->done
HSendOk(h) ==
    /\ h_state[h] = "sending"
    /\ Len(s_capture_queue) < CAPTURE_QUEUE_LEN
    /\ s_capture_queue' = Append(s_capture_queue, h)
    /\ h_state' = [h_state EXCEPT ![h] = "waiting"]
    /\ h_waited' = [h_waited EXCEPT ![h] = 0]
    /\ UNCHANGED <<h_resp, h_busy_on_arrival, taskVars>>
    /\ UNCHANGED <<slaveVars, masterVars>>
    /\ UNCHANGED extVars

\* xQueueSend stays blocked on the full queue
HSendWait(h) ==
    /\ h_state[h] = "sending"
    /\ Len(s_capture_queue) >= CAPTURE_QUEUE_LEN
    /\ h_waited[h] < QUEUE_SEND_TIMEOUT_MS
    /\ h_waited' = [h_waited EXCEPT ![h] = @ + SendTickMs]
    /\ UNCHANGED <<h_state, h_resp, h_busy_on_arrival, s_capture_queue, taskVars>>
    /\ UNCHANGED <<slaveVars, masterVars>>
    /\ UNCHANGED extVars

\* xQueueSend gives up: request freed, 409 "capture busy"
HSendTimeout(h) ==
    /\ h_state[h] = "sending"
    /\ Len(s_capture_queue) >= CAPTURE_QUEUE_LEN
    /\ h_waited[h] >= QUEUE_SEND_TIMEOUT_MS
    /\ h_state' = [h_state EXCEPT ![h] = "replied"]
    /\ h_resp' = [h_resp EXCEPT ![h] = "409 capture busy"]
    /\ h_waited' = [h_waited EXCEPT ![h] = 0]
    /\ h_busy_on_arrival' = [h_busy_on_arrival EXCEPT ![h] = FALSE]
    /\ UNCHANGED <<s_capture_queue, taskVars>>
    /\ UNCHANGED <<slaveVars, masterVars>>
    /\ UNCHANGED extVars

TaskReceive_Preempt ==
    /\ s_capture_queue # << >>
    /\ task_req' = Head(s_capture_queue)
    /\ s_capture_queue' = Tail(s_capture_queue)
    /\ task_err' = "running"
    /\ task_step' = 0
    /\ executed' = executed \cup {Head(s_capture_queue)}
    /\ UNCHANGED handlerVars
    /\ UNCHANGED <<slaveVars, masterVars>>
    /\ UNCHANGED extVars

\* capture_task: xQueueReceive returns the oldest request
TaskReceive ==
    /\ task_req = 0
    /\ s_capture_queue # << >>
    /\ task_req' = Head(s_capture_queue)
    /\ s_capture_queue' = Tail(s_capture_queue)
    /\ task_err' = "running"
    /\ task_step' = 0
    /\ executed' = executed \cup {Head(s_capture_queue)}
    /\ UNCHANGED handlerVars
    /\ UNCHANGED <<slaveVars, masterVars>>
    /\ UNCHANGED extVars

\* capture_task inside run_capture_sequence: the next step completes, or it
\* fails and the sequence returns; after the last step it returns ESP_OK
TaskStep ==
    /\ task_req # 0
    /\ task_err = "running"
    /\ LET step == SequenceSteps[task_step + 1] IN
          \/ /\ task_step' = task_step + 1
             /\ task_err' = IF task_step + 1 = Len(SequenceSteps)
                            THEN "ESP_OK" ELSE "running"
          \/ /\ step \in DOMAIN StepFailure
             /\ task_err' = StepFailure[step]
             /\ UNCHANGED task_step
    /\ UNCHANGED <<handlerVars, s_capture_queue, task_req, executed>>
    /\ UNCHANGED <<slaveVars, masterVars>>
    /\ UNCHANGED extVars

\* capture_handler takes msg = cap->err_msg, frees cap and then sends msg:
\* the body of the 500 reply is whatever the freed block holds when
\* httpd_resp_send_err reads it, the message or other bytes
FreedMessage(err_msg) == {err_msg, "<freed memory>"}

\* capture_task gives cap->done; the handler wakes up and answers
TaskDone ==
    /\ task_req # 0
    /\ task_err # "running"
    /\ h_state' = [h_state EXCEPT ![task_req] = "replied"]
    /\ \E msg \in FreedMessage(task_err) :
          h_resp' = [h_resp EXCEPT ![task_req] =
                        IF task_err = "ESP_OK" THEN "200 OK" ELSE "500 " \o msg]
    /\ task_req' = 0
    /\ task_err' = "running"
    /\ task_step' = 0
    /\ h_busy_on_arrival' = [h_busy_on_arrival EXCEPT ![task_req] = FALSE]
    /\ UNCHANGED <<h_waited, s_capture_queue, executed>>
    /\ UNCHANGED <<slaveVars, masterVars>>
    /\ UNCHANGED extVars

(***************************************************************************)
(* Naming of a persisted frame: capture_handler reads pixel_format, the    *)
(* camera is brought to that format, and the record loop of                *)
(* run_capture_sequence (master) / run_slave_capture (slave) builds the    *)
(* path of each frame it writes.                                           *)
(***************************************************************************)
CAPTURE_DIR == <<"/", "e", "M", "M", "C", "/", "c", "a", "p", "t", "u", "r", "e">>

\* values of the pixel_format key that a request carries (<< >>: no key)
PixelFormatValues ==
    { << >>, jpeg, <<"J", "P", "E", "G">>, rgb565, grayscale, yuv422,
      <<"r", "a", "w">>,
      <<"0">>, <<"1">>, <<"2">>, <<"3">>, <<"4">>, <<"5">>, <<"6">>, <<"8">>,
      <<"1", "2">> }

\* session names
Sessions == { <<"s", "e", "s", "s", "i", "o", "n">>, <<"r", "u", "n", "7">> }

\* esp_timer_get_time() when a frame is named
NameClockUs == {999, 5000000, 5000999, 61234567}

NameInit ==
    /\ n_pc = "request"
    /\ n_dev \in {"master", "slave"}
    /\ n_value \in PixelFormatValues
    /\ n_session \in Sessions
    /\ n_fmt = "NONE"
    /\ n_path = << >>

\* the naming part does not take part in the other specifications
NameOff ==
    /\ n_pc = "off"
    /\ n_dev = "master"
    /\ n_value = << >>
    /\ n_session = << >>
    /\ n_fmt = "NONE"
    /\ n_path = << >>

\* capture_handler: fmt starts as DEFAULT_PIXEL_FORMAT and is replaced by
\* parse_pixformat(value) when the key is present
NameParse ==
    /\ n_pc = "request"
    /\ n_fmt' = parse_pixformat(n_value)
    /\ n_pc' = "configure"
    /\ UNCHANGED <<n_dev, n_value, n_session, n_path>>
    /\ UNCHANGED <<slaveVars, masterVars, frontVars, mStreamVars, sStreamVars, waitVars, lateVars>>

\* the camera is brought to the format of the request: the master always
\* reinitialises it, the slave does so for every format but JPEG and sets
\* framesize and format in place otherwise; init_camera_with_format passes
\* the format to the camera driver, which accepts or refuses it
NameConfigure ==
    /\ n_pc = "configure"
    /\ LET need_reinit == n_dev = "master" \/ n_fmt # "JPEG" IN
          \/ n_pc' = "record"
          \/ need_reinit /\ n_pc' = "failed"
    /\ UNCHANGED <<n_dev, n_value, n_session, n_fmt, n_path>>
    /\ UNCHANGED <<slaveVars, masterVars, frontVars, mStreamVars, sStreamVars, waitVars, lateVars>>

\* the extension chosen in the record loop
FileExt(fmt) ==
    IF fmt = "JPEG" THEN <<"j", "p", "g">>
    ELSE IF fmt = "RGB565" THEN <<"r", "g", "b", "5", "6", "5">>
    ELSE IF fmt = "GRAYSCALE" THEN <<"g", "r", "a", "y">>
    ELSE IF fmt = "YUV422" THEN <<"y", "u", "v">>
    ELSE <<"s", "e", "s", "s", "i", "o", "n">>

\* snprintf(path, size, "%s/%s-%lld.%s", CAPTURE_DIR, session, timestamp_ms, ext)
CapturePath(session, timestamp_ms, ext) ==
    CAPTURE_DIR \o <<"/">> \o session \o <<"-">> \o FormatInt64(timestamp_ms)
                \o <<".">> \o ext

\* one frame of the record loop is written
NamePersist ==
    /\ n_pc = "record"
    /\ \E now_us \in NameClockUs :
          n_path' = CapturePath(n_session, now_us \div 1000, FileExt(n_fmt))
    /\ UNCHANGED <<n_pc, n_dev, n_value, n_session, n_fmt>>
    /\ UNCHANGED <<slaveVars, masterVars, frontVars, mStreamVars, sStreamVars, waitVars, lateVars>>

NameNext ==
    \/ NameParse
    \/ NameConfigure
    \/ NamePersist

(***************************************************************************)
(* Master: the ready poll, udp_slave_wait_ready(timeout_ms, poll_ms) with  *)
(* udp_slave_ready_check.                                                  *)
(***************************************************************************)
\* timeout and poll interval: the defaults of the source and other settings
\* of the two configuration values
PollConfigs ==
    { [timeout_ms |-> CONFIG_CAPSEQ_SLAVE_READY_TIMEOUT_MS,
       poll_ms |-> CONFIG_CAPSEQ_SLAVE_READY_POLL_MS],
      [timeout_ms |-> 1000, poll_ms |-> 300],
      [timeout_ms |-> 600, poll_ms |-> 200],
      [timeout_ms |-> 0, poll_ms |-> 200] }

\* what a READY exchange can bring: the socket cannot be opened, nothing is
\* received in time, or a datagram arrives
ReadyExchanges ==
    { [net |-> "resolve_failed", reply |-> << >>], [net |-> "lost", reply |-> << >>] }
    \cup { [net |-> "reply", reply |-> r] : r \in {OK, NO, ERR, << >>, <<"7">>, <<"O">>} }

\* before the first exchange
NoExchange == [net |-> "none", reply |-> << >>]

PollInit ==
    /\ p_pc = "loop"
    /\ \E c \in PollConfigs : p_timeout_ms = c.timeout_ms /\ p_poll_ms = c.poll_ms
    /\ p_elapsed = 0
    /\ p_polls = 0
    /\ p_last = NoExchange
    /\ p_ret = "none"

\* the ready poll does not take part in the other specifications
PollOff ==
    /\ p_pc = "off"
    /\ p_timeout_ms = 0
    /\ p_poll_ms = 0
    /\ p_elapsed = 0
    /\ p_polls = 0
    /\ p_last = NoExchange
    /\ p_ret = "none"

\* udp_slave_ready_check
udp_slave_ready_check(x) ==
    IF x.net = "resolve_failed" THEN "ESP_FAIL"
    ELSE IF x.net = "lost" THEN "ESP_ERR_TIMEOUT"
    ELSE IF HasPrefix(x.reply, OK) THEN "ESP_OK"
    ELSE "ESP_FAIL"

PollAgain_Strict(waited, timeout_ms) == waited < timeout_ms

\* while (elapsed <= timeout_ms)
PollAgain(waited, timeout_ms) == waited <= timeout_ms

\* one pass of the loop of udp_slave_wait_ready, or its return after the loop
PollOnce ==
    /\ p_pc = "loop"
    /\ IF PollAgain(p_elapsed, p_timeout_ms)
       THEN \E x \in ReadyExchanges :
               /\ p_polls' = p_polls + 1
               /\ p_last' = x
               /\ IF udp_slave_ready_check(x) = "ESP_OK"
                  THEN /\ p_ret' = "ESP_OK"
                       /\ p_pc' = "returned"
                       /\ UNCHANGED p_elapsed
                  ELSE /\ p_elapsed' = p_elapsed + p_poll_ms
                       /\ UNCHANGED <<p_ret, p_pc>>
       ELSE /\ p_ret' = "ESP_ERR_TIMEOUT"
            /\ p_pc' = "returned"
            /\ UNCHANGED <<p_elapsed, p_polls, p_last>>
    /\ UNCHANGED <<p_timeout_ms, p_poll_ms>>
    /\ UNCHANGED <<slaveVars, masterVars, frontVars, nameVars, mStreamVars, sStreamVars,
                   waitVars, frameVars>>

PollNext == PollOnce

(***************************************************************************)
(* The queue-based firmware variants: the capture-only writer              *)
(* (TRANSFER_CONTEXT.md) and the UDP RGB565 streamer                       *)
(* (app_main_udp_rgb565.c).  In both a capture task pulls frame buffers    *)
(* from the camera driver and sends them to a FreeRTOS queue, and a second *)
(* task receives them and gives them back with esp_camera_fb_return.       *)
(* A frame buffer is identified by the count of the pull that obtained it. *)
(***************************************************************************)
MaxFrameIds == 3

FrameIds == 1 .. MaxFrameIds

\* #define FRAME_QUEUE_LENGTH 30
FRAME_QUEUE_LENGTH == 30

\* s_frame_queue = xQueueCreate(2, sizeof(frame_item_t))
UdpFrameQueueLength == 2

\* SDCARD_USABLE_BYTES / frame_bytes, as the first frame gives it
CapacityChoices == {0, 1, 2}

FrameOthers == <<slaveVars, masterVars, frontVars, nameVars, mStreamVars, sStreamVars,
                 waitVars, pollVars>>

FrameInit ==
    /\ q_variant \in {"writer", "udp"}
    /\ q_capPc = IF q_variant = "writer" THEN "start" ELSE "loop"
    /\ q_conPc = "recv"
    /\ q_queue = << >>
    /\ q_fb = 0
    /\ q_item = 0
    /\ q_obtained = 0
    /\ q_returned = [f \in FrameIds |-> 0]
    /\ q_stop_capture = FALSE
    /\ q_stream_enabled = FALSE
    /\ q_client_valid = FALSE
    /\ q_frame_index = 0
    /\ q_max_frames = 0
    /\ q_capacity \in IF q_variant = "writer" THEN CapacityChoices ELSE {0}

FrameOff ==
    /\ q_variant = "off"
    /\ q_capPc = "off"
    /\ q_conPc = "off"
    /\ q_queue = << >>
    /\ q_fb = 0
    /\ q_item = 0
    /\ q_obtained = 0
    /\ q_returned = [f \in FrameIds |-> 0]
    /\ q_stop_capture = FALSE
    /\ q_stream_enabled = FALSE
    /\ q_client_valid = FALSE
    /\ q_frame_index = 0
    /\ q_max_frames = 0
    /\ q_capacity = 0

\* esp_camera_fb_return(fb)
FbReturn(f) == q_returned' = [q_returned EXCEPT ![f] = @ + 1]

\* xQueueSend(queue, &item, 0) of the frame the capture task holds: the
\* frame goes to the back of the queue, or to the driver when the queue is
\* full
QueueSendOrReturn(len) ==
    IF Len(q_queue) < len
    THEN /\ q_queue' = Append(q_queue, q_fb)
         /\ UNCHANGED q_returned
    ELSE /\ FbReturn(q_fb)
         /\ UNCHANGED q_queue

\* ---- capture-only writer: capture_task
\* the entry test of stop_capture and the warm-up loop, each of whose frames
\* is returned in the iteration that pulled it
WCapStart ==
    /\ q_variant = "writer"
    /\ q_capPc = "start"
    /\ q_capPc' = IF q_stop_capture THEN "deleted" ELSE "loop"
    /\ UNCHANGED <<q_variant, q_conPc, q_queue, q_fb, q_item, q_obtained, q_returned,
                   q_stop_capture, q_stream_enabled, q_client_valid, q_frame_index,
                   q_max_frames, q_capacity>>
    /\ UNCHANGED FrameOthers

\* if (stop_capture) vTaskDelete(NULL); at the top of the loop
WCapLoop ==
    /\ q_variant = "writer"
    /\ q_capPc = "loop"
    /\ q_capPc' = IF q_stop_capture THEN "deleted" ELSE "fb_get"
    /\ UNCHANGED <<q_variant, q_conPc, q_queue, q_fb, q_item, q_obtained, q_returned,
                   q_stop_capture, q_stream_enabled, q_client_valid, q_frame_index,
                   q_max_frames, q_capacity>>
    /\ UNCHANGED FrameOthers

\* esp_camera_fb_get(): a frame, or NULL and the delay
WCapGet ==
    /\ q_variant = "writer"
    /\ q_capPc = "fb_get"
    /\ \/ /\ q_obtained < MaxFrameIds
          /\ q_obtained' = q_obtained + 1
          /\ q_fb' = q_obtained + 1
          /\ q_capPc' = "stop_check"
       \/ /\ q_capPc' = "loop"
          /\ UNCHANGED <<q_obtained, q_fb>>
    /\ UNCHANGED <<q_variant, q_conPc, q_queue, q_item, q_returned,
                   q_stop_capture, q_stream_enabled, q_client_valid, q_frame_index,
                   q_max_frames, q_capacity>>
    /\ UNCHANGED FrameOthers

\* if (stop_capture) { esp_camera_fb_return(fb); vTaskDelete(NULL); }
WCapStopCheck ==
    /\ q_variant = "writer"
    /\ q_capPc = "stop_check"
    /\ IF q_stop_capture
       THEN /\ FbReturn(q_fb)
            /\ q_fb' = 0
            /\ q_capPc' = "deleted"
       ELSE /\ q_capPc' = "send"
            /\ UNCHANGED <<q_returned, q_fb>>
    /\ UNCHANGED <<q_variant, q_conPc, q_queue, q_item, q_obtained,
                   q_stop_capture, q_stream_enabled, q_client_valid, q_frame_index,
                   q_max_frames, q_capacity>>
    /\ UNCHANGED FrameOthers

\* xQueueSend(frameQueue, &fb, 0), the frame returned when the queue is
\* full, and the delay
WCapSend ==
    /\ q_variant = "writer"
    /\ q_capPc = "send"
    /\ QueueSendOrReturn(FRAME_QUEUE_LENGTH)
    /\ q_fb' = 0
    /\ q_capPc' = "loop"
    /\ UNCHANGED <<q_variant, q_conPc, q_item, q_obtained,
                   q_stop_capture, q_stream_enabled, q_client_valid, q_frame_index,
                   q_max_frames, q_capacity>>
    /\ UNCHANGED FrameOthers

\* ---- capture-only writer: writer_task
\* xQueueReceive(frameQueue, &fb, portMAX_DELAY)
WriterReceive ==
    /\ q_variant = "writer"
    /\ q_conPc = "recv"
    /\ q_queue # << >>
    /\ q_item' = Head(q_queue)
    /\ q_queue' = Tail(q_queue)
    /\ q_conPc' = "write"
    /\ UNCHANGED <<q_variant, q_capPc, q_fb, q_obtained, q_returned,
                   q_stop_capture, q_stream_enabled, q_client_valid, q_frame_index,
                   q_max_frames, q_capacity>>
    /\ UNCHANGED FrameOthers

\* max_frames as the first frame sets it
FrameLimit(limit, capacity) ==
    IF limit # 0 THEN limit ELSE IF capacity = 0 THEN 1 ELSE capacity

\* the frame is written and returned; at the frame limit stop_capture is
\* set and the loop is left
WriterWrite ==
    /\ q_variant = "writer"
    /\ q_conPc = "write"
    /\ q_max_frames' = FrameLimit(q_max_frames, q_capacity)
    /\ q_frame_index' = q_frame_index + 1
    /\ FbReturn(q_item)
    /\ q_item' = 0
    /\ IF q_frame_index' >= q_max_frames'
       THEN /\ q_stop_capture' = TRUE
            /\ q_conPc' = "drain"
       ELSE /\ q_conPc' = "recv"
            /\ UNCHANGED q_stop_capture
    /\ UNCHANGED <<q_variant, q_capPc, q_queue, q_fb, q_obtained,
                   q_stream_enabled, q_client_valid, q_capacity>>
    /\ UNCHANGED FrameOthers

\* the drain loop: xQueueReceive(frameQueue, &pending, 0) until it fails,
\* then the file is closed and the task deletes itself
WriterDrain ==
    /\ q_variant = "writer"
    /\ q_conPc = "drain"
    /\ IF q_queue # << >>
       THEN /\ FbReturn(Head(q_queue))
            /\ q_queue' = Tail(q_queue)
            /\ UNCHANGED q_conPc
       ELSE /\ q_conPc' = "deleted"
            /\ UNCHANGED <<q_queue, q_returned>>
    /\ UNCHANGED <<q_variant, q_capPc, q_fb, q_item, q_obtained,
                   q_stop_capture, q_stream_enabled, q_client_valid, q_frame_index,
                   q_max_frames, q_capacity>>
    /\ UNCHANGED FrameOthers

\* ---- UDP streamer: capture_task
\* if (!s_stream_enabled) { vTaskDelay; continue; }
UCapLoop ==
    /\ q_variant = "udp"
    /\ q_capPc = "loop"
    /\ q_stream_enabled
    /\ q_capPc' = "fb_get"
    /\ UNCHANGED <<q_variant, q_conPc, q_queue, q_fb, q_item, q_obtained, q_returned,
                   q_stop_capture, q_stream_enabled, q_client_valid, q_frame_index,
                   q_max_frames, q_capacity>>
    /\ UNCHANGED FrameOthers

\* esp_camera_fb_get(): a frame of the configured format, or NULL and the
\* delay
UCapGet ==
    /\ q_variant = "udp"
    /\ q_capPc = "fb_get"
    /\ \/ /\ q_obtained < MaxFrameIds
          /\ q_obtained' = q_obtained + 1
          /\ q_fb' = q_obtained + 1
          /\ q_capPc' = "send"
       \/ /\ q_capPc' = "loop"
          /\ UNCHANGED <<q_obtained, q_fb>>
    /\ UNCHANGED <<q_variant, q_conPc, q_queue, q_item, q_returned,
                   q_stop_capture, q_stream_enabled, q_client_valid, q_frame_index,
                   q_max_frames, q_capacity>>
    /\ UNCHANGED FrameOthers

\* xQueueSend(s_frame_queue, &item, 0), the frame returned when the queue
\* is full
UCapSend ==
    /\ q_variant = "udp"
    /\ q_capPc = "send"
    /\ QueueSendOrReturn(UdpFrameQueueLength)
    /\ q_fb' = 0
    /\ q_capPc' = "loop"
    /\ UNCHANGED <<q_variant, q_conPc, q_item, q_obtained,
                   q_stop_capture, q_stream_enabled, q_client_valid, q_frame_index,
                   q_max_frames, q_capacity>>
    /\ UNCHANGED FrameOthers

\* ---- UDP streamer: udp_stream_task
\* recvfrom brings START: the flags are set and drain_frame_queue is entered
UStartCmd ==
    /\ q_variant = "udp"
    /\ q_conPc = "recv"
    /\ q_stream_enabled' = TRUE
    /\ q_client_valid' = TRUE
    /\ q_conPc' = "drain"
    /\ UNCHANGED <<q_variant, q_capPc, q_queue, q_fb, q_item, q_obtained, q_returned,
                   q_stop_capture, q_frame_index, q_max_frames, q_capacity>>
    /\ UNCHANGED FrameOthers

\* recvfrom brings STOP: the flags are cleared and drain_frame_queue is
\* entered
UStopCmd ==
    /\ q_variant = "udp"
    /\ q_conPc = "recv"
    /\ q_stream_enabled' = FALSE
    /\ q_client_valid' = FALSE
    /\ q_conPc' = "drain"
    /\ UNCHANGED <<q_variant, q_capPc, q_queue, q_fb, q_item, q_obtained, q_returned,
                   q_stop_capture, q_frame_index, q_max_frames, q_capacity>>
    /\ UNCHANGED FrameOthers

\* recvfrom times out after 100 ms or brings another datagram (ERR)
UNoCmd ==
    /\ q_variant = "udp"
    /\ q_conPc = "recv"
    /\ q_conPc' = "pump"
    /\ UNCHANGED <<q_variant, q_capPc, q_queue, q_fb, q_item, q_obtained, q_returned,
                   q_stop_capture, q_stream_enabled, q_client_valid, q_frame_index,
                   q_max_frames, q_capacity>>
    /\ UNCHANGED FrameOthers

\* drain_frame_queue: xQueueReceive(s_frame_queue, &item, 0) until it
\* fails, each frame returned; then the reply is sent
UDrain ==
    /\ q_variant = "udp"
    /\ q_conPc = "drain"
    /\ IF q_queue # << >>
       THEN /\ FbReturn(Head(q_queue))
            /\ q_queue' = Tail(q_queue)
            /\ UNCHANGED q_conPc
       ELSE /\ q_conPc' = "pump"
            /\ UNCHANGED <<q_queue, q_returned>>
    /\ UNCHANGED <<q_variant, q_capPc, q_fb, q_item, q_obtained,
                   q_stop_capture, q_stream_enabled, q_client_valid, q_frame_index,
                   q_max_frames, q_capacity>>
    /\ UNCHANGED FrameOthers

\* if (s_stream_enabled && s_client_valid) xQueueReceive(s_frame_queue,
\* &item, 0)
UPump ==
    /\ q_variant = "udp"
    /\ q_conPc = "pump"
    /\ IF q_stream_enabled /\ q_client_valid /\ q_queue # << >>
       THEN /\ q_item' = Head(q_queue)
            /\ q_queue' = Tail(q_queue)
            /\ q_conPc' = "send_frame"
       ELSE /\ q_conPc' = "recv"
            /\ UNCHANGED <<q_item, q_queue>>
    /\ UNCHANGED <<q_variant, q_capPc, q_fb, q_obtained, q_returned,
                   q_stop_capture, q_stream_enabled, q_client_valid, q_frame_index,
                   q_max_frames, q_capacity>>
    /\ UNCHANGED FrameOthers

\* udp_send_frame, then esp_camera_fb_return(item.fb)
USendFrame ==
    /\ q_variant = "udp"
    /\ q_conPc = "send_frame"
    /\ FbReturn(q_item)
    /\ q_item' = 0
    /\ q_conPc' = "recv"
    /\ UNCHANGED <<q_variant, q_capPc, q_queue, q_fb, q_obtained,
                   q_stop_capture, q_stream_enabled, q_client_valid, q_frame_index,
                   q_max_frames, q_capacity>>
    /\ UNCHANGED FrameOthers

FrameNext ==
    \/ WCapStart
    \/ WCapLoop
    \/ WCapGet
    \/ WCapStopCheck
    \/ WCapSend
    \/ WriterReceive
    \/ WriterWrite
    \/ WriterDrain
    \/ UCapLoop
    \/ UCapGet
    \/ UCapSend
    \/ UStartCmd
    \/ UStopCmd
    \/ UNoCmd
    \/ UDrain
    \/ UPump
    \/ USendFrame

\* both tasks of a variant are scheduled; commands arrive or not
FrameFairness ==
    /\ WF_vars(WCapStart)
    /\ WF_vars(WCapLoop)
    /\ WF_vars(WCapGet)
    /\ WF_vars(WCapStopCheck)
    /\ WF_vars(WCapSend)
    /\ WF_vars(WriterReceive)
    /\ WF_vars(WriterWrite)
    /\ WF_vars(WriterDrain)
    /\ WF_vars(UCapLoop)
    /\ WF_vars(UCapGet)
    /\ WF_vars(UCapSend)
    /\ WF_vars(UNoCmd)
    /\ WF_vars(UDrain)
    /\ WF_vars(UPump)
    /\ WF_vars(USendFrame)

\* the parts added last are not part of the other specifications
LateOff == PollOff /\ FrameOff

(***************************************************************************)
(* The wait for the deadline: run_capture_sequence (master) and            *)
(* run_slave_capture (slave) compute start_time_us from the clock and the  *)
(* delay, loop until the clock has reached it, and pull the first frame.   *)
(***************************************************************************)
\* delays of a capture, in microseconds
WaitDelays == {0, 100, 1999, 2000, 2001, 2500, 5000, 12345}

\* the clock when the wait is entered
WaitEntryClocks == {0, 777}

\* how long a sleep or a busy-wait can overrun
OvershootUs == 300

WaitInit ==
    /\ w_pc = "entry"
    /\ w_dev \in {"master", "slave"}
    /\ w_delay \in WaitDelays
    /\ w_now \in WaitEntryClocks
    /\ w_from = 0
    /\ w_start_time_us = 0
    /\ w_pull_at = -1

\* the wait does not take part in the other specifications
WaitOff ==
    /\ w_pc = "off"
    /\ w_dev = "master"
    /\ w_delay = 0
    /\ w_now = 0
    /\ w_from = 0
    /\ w_start_time_us = 0
    /\ w_pull_at = -1

\* int64_t start_time_us = esp_timer_get_time() + delay
WaitEnter ==
    /\ w_pc = "entry"
    /\ w_from' = w_now
    /\ w_start_time_us' = w_now + w_delay
    /\ w_pc' = "loop"
    /\ UNCHANGED <<w_dev, w_delay, w_now, w_pull_at>>
    /\ UNCHANGED <<slaveVars, masterVars, frontVars, nameVars, mStreamVars, sStreamVars,
                   lateVars>>

DeadlineReached_Coarse(remaining_us) == remaining_us <= 2000

\* if (remaining_us <= 0) break;
DeadlineReached(remaining_us) == remaining_us <= 0

\* the clock after vTaskDelay(pdMS_TO_TICKS(remaining_us / 1000)): the call
\* returns at once when the milliseconds round to no tick, after the time
\* asked for, or later
SleepOutcomes(remaining_us) ==
    {1, CDiv(remaining_us, 1000) * 1000, CDiv(remaining_us, 1000) * 1000 + OvershootUs}

\* the clock after esp_rom_delay_us(100)
SpinOutcomes == {BUSY_WAIT_US, BUSY_WAIT_US + OvershootUs}

\* one pass of the wait loop
WaitPass ==
    /\ w_pc = "loop"
    /\ LET remaining_us == w_start_time_us - w_now IN
          IF DeadlineReached(remaining_us)
          THEN /\ w_pc' = "record"
               /\ UNCHANGED w_now
          ELSE /\ \E d \in IF remaining_us > 2000 THEN SleepOutcomes(remaining_us)
                           ELSE SpinOutcomes :
                     w_now' = w_now + d
               /\ UNCHANGED w_pc
    /\ UNCHANGED <<w_dev, w_delay, w_from, w_start_time_us, w_pull_at>>
    /\ UNCHANGED <<slaveVars, masterVars, frontVars, nameVars, mStreamVars, sStreamVars,
                   lateVars>>

\* the first esp_camera_fb_get of the record loop, at once or after the task
\* was held up
WaitPull ==
    /\ w_pc = "record"
    /\ \E d \in {0, OvershootUs} :
          /\ w_now' = w_now + d
          /\ w_pull_at' = w_now + d
    /\ w_pc' = "pulled"
    /\ UNCHANGED <<w_dev, w_delay, w_from, w_start_time_us>>
    /\ UNCHANGED <<slaveVars, masterVars, frontVars, nameVars, mStreamVars, sStreamVars,
                   lateVars>>

WaitNext ==
    \/ WaitEnter
    \/ WaitPass
    \/ WaitPull

(***************************************************************************)
(* Slave: streaming and the sensor endpoint next to the capture engine.    *)
(* stream_start_handler, stream_stop_handler and sensor_handler run on the *)
(* task of s_httpd between two requests; stream_handler runs on the task   *)
(* of s_stream_httpd.  A pass of stream_handler through its entry checks,  *)
(* through the two tests of its loop, or through its exit is one step.     *)
(***************************************************************************)
SStreamInit ==
    /\ sStrPc = "idle"
    /\ s_stream_in_progress = FALSE

\* the streaming part does not take part in the other specifications
SStreamOff ==
    /\ sStrPc = "off"
    /\ s_stream_in_progress = FALSE

\* stream_start_handler
SStreamStart ==
    /\ sStrPc # "off"
    /\ httpPc = "idle"
    /\ s_stream_enabled' = TRUE
    /\ UNCHANGED <<s_stream_stop_requested, s_cam, slaveRest, sStreamVars>>
    /\ UNCHANGED <<masterVars, frontVars, nameVars, mStreamVars, waitVars, lateVars>>

\* stream_stop_handler
SStreamStop ==
    /\ sStrPc # "off"
    /\ httpPc = "idle"
    /\ s_stream_enabled' = FALSE
    /\ s_stream_stop_requested' = TRUE
    /\ UNCHANGED <<s_cam, slaveRest, sStreamVars>>
    /\ UNCHANGED <<masterVars, frontVars, nameVars, mStreamVars, waitVars, lateVars>>

\* sensor_handler with the body pixel_format=rgb565: 500 without a sensor,
\* sensor->set_pixformat otherwise
SSensor ==
    /\ sStrPc # "off"
    /\ httpPc = "idle"
    /\ s_cam.inited
    /\ s_cam' = [s_cam EXCEPT !.fmt = parse_pixformat(rgb565)]
    /\ UNCHANGED <<streamVars, slaveRest, sStreamVars>>
    /\ UNCHANGED <<masterVars, frontVars, nameVars, mStreamVars, waitVars, lateVars>>

\* stream_handler passes its two checks, sets s_stream_in_progress and sets
\* the sensor to JPEG (a rejected request changes nothing)
SStreamEnter ==
    /\ sStrPc = "idle"
    /\ s_stream_enabled /\ ~s_stream_in_progress
    /\ s_stream_in_progress' = TRUE
    /\ sStrPc' = "loop"
    /\ s_cam' = IF s_cam.inited THEN [s_cam EXCEPT !.fmt = "JPEG"] ELSE s_cam
    /\ UNCHANGED <<streamVars, slaveRest>>
    /\ UNCHANGED <<masterVars, frontVars, nameVars, mStreamVars, waitVars, lateVars>>

\* the loop goes on: while (s_stream_enabled) and the test of
\* s_stream_stop_requested let it through to esp_camera_fb_get
SStreamTurn ==
    /\ sStrPc = "loop"
    /\ s_stream_enabled /\ ~s_stream_stop_requested
    /\ sStrPc' = "fb_get"
    /\ UNCHANGED <<streamVars, s_cam, slaveRest, s_stream_in_progress>>
    /\ UNCHANGED <<masterVars, frontVars, nameVars, mStreamVars, waitVars, lateVars>>

\* esp_camera_fb_get, the sends, esp_camera_fb_return
SStreamPull ==
    /\ sStrPc = "fb_get"
    /\ sStrPc' = "loop"
    /\ UNCHANGED <<streamVars, s_cam, slaveRest, s_stream_in_progress>>
    /\ UNCHANGED <<masterVars, frontVars, nameVars, mStreamVars, waitVars, lateVars>>

\* the loop ends (a flag, or a failed send): s_stream_in_progress = false;
\* s_stream_stop_requested = false
SStreamExit ==
    /\ sStrPc = "loop"
    /\ s_stream_in_progress' = FALSE
    /\ s_stream_stop_requested' = FALSE
    /\ sStrPc' = "idle"
    /\ UNCHANGED <<s_stream_enabled, s_cam, slaveRest>>
    /\ UNCHANGED <<masterVars, frontVars, nameVars, mStreamVars, waitVars, lateVars>>

(***************************************************************************)
(* Master: streaming, the sensor endpoint and the camera.  Three tasks     *)
(* share the stream flags and the camera: the task of the server s_httpd   *)
(* (stream_start_handler, stream_stop_handler, sensor_handler and          *)
(* capture_handler, one handler at a time; capture_handler stays blocked   *)
(* on cap->done until its sequence returned), the task of the server       *)
(* s_stream_httpd (stream_handler) and capture_task.  Every read and every *)
(* write of a flag is a step of its own.                                   *)
(***************************************************************************)
\* stop_stream_and_wait(2000) in run_capture_sequence
QUIESCE_TIMEOUT_MS == 2000

\* granularity at which the wait of stop_stream_and_wait is observed
QuiesceTickMs == 500

\* positions of stream_handler between s_stream_in_progress = true and
\* s_stream_in_progress = false
StreamLoopPositions == {"set_format", "loop", "stop_check", "fb_get", "send", "exit1"}

MStreamInit ==
    /\ m_stream_enabled = FALSE
    /\ m_stream_in_progress = FALSE
    /\ m_stream_stop_requested = FALSE
    /\ strPc = "idle"
    /\ str_resp = "none"
    /\ webPc = "idle"
    /\ capPc = "idle"
    /\ waited_ms = 0
    /\ flag_writers = [enabled |-> {}, stop |-> {}]
    /\ stop_seen = FALSE
    /\ late_pulls = 0

\* the streaming part does not take part in the other specifications
MStreamOff ==
    /\ m_stream_enabled = FALSE
    /\ m_stream_in_progress = FALSE
    /\ m_stream_stop_requested = FALSE
    /\ strPc = "off"
    /\ str_resp = "none"
    /\ webPc = "off"
    /\ capPc = "off"
    /\ waited_ms = 0
    /\ flag_writers = [enabled |-> {}, stop |-> {}]
    /\ stop_seen = FALSE
    /\ late_pulls = 0

\* a write of s_stream_enabled / s_stream_stop_requested by a task
WriteEnabled(task, value) ==
    /\ m_stream_enabled' = value
    /\ flag_writers' = [flag_writers EXCEPT !.enabled = @ \cup {task}]
    /\ stop_seen' = (stop_seen \/ (~value /\ m_stream_in_progress))

WriteStop(task, value) ==
    /\ m_stream_stop_requested' = value
    /\ flag_writers' = [flag_writers EXCEPT !.stop = @ \cup {task}]
    /\ stop_seen' = (stop_seen \/ (value /\ m_stream_in_progress))

\* ---- task of s_stream_httpd: stream_handler
\* a GET /stream request is taken up
StreamAccept ==
    /\ strPc = "idle"
    /\ strPc' = "check"
    /\ str_resp' = "none"
    /\ UNCHANGED <<m_stream_enabled, m_stream_in_progress, m_stream_stop_requested,
                   webPc, capPc, waited_ms, flag_writers, stop_seen, late_pulls>>
    /\ UNCHANGED <<slaveVars, masterVars, frontVars, nameVars, sStreamVars, waitVars, lateVars>>

StreamRejected_ActiveOnly(enabled, active) == active

\* if (!s_stream_enabled) ... if (s_stream_in_progress) ...
StreamRejected(enabled, active) == ~enabled \/ active

StreamCheck ==
    /\ strPc = "check"
    /\ IF StreamRejected(m_stream_enabled, m_stream_in_progress)
       THEN /\ strPc' = "idle"
            /\ str_resp' = IF ~m_stream_enabled THEN "409 stream disabled"
                           ELSE "409 stream already active"
       ELSE /\ strPc' = "mark"
            /\ UNCHANGED str_resp
    /\ UNCHANGED <<m_stream_enabled, m_stream_in_progress, m_stream_stop_requested,
                   webPc, capPc, waited_ms, flag_writers, stop_seen, late_pulls>>
    /\ UNCHANGED <<slaveVars, masterVars, frontVars, nameVars, sStreamVars, waitVars, lateVars>>

\* s_stream_in_progress = true; s_stream_fd = ...
StreamMark ==
    /\ strPc = "mark"
    /\ m_stream_in_progress' = TRUE
    /\ strPc' = "set_format"
    /\ UNCHANGED <<m_stream_enabled, m_stream_stop_requested, str_resp,
                   webPc, capPc, waited_ms, flag_writers, stop_seen, late_pulls>>
    /\ UNCHANGED <<slaveVars, masterVars, frontVars, nameVars, sStreamVars, waitVars, lateVars>>

\* sensor->set_pixformat(sensor, PIXFORMAT_JPEG) when the camera has a sensor
StreamSetFormat ==
    /\ strPc = "set_format"
    /\ m_cam' = IF m_cam.inited THEN [m_cam EXCEPT !.fmt = "JPEG"] ELSE m_cam
    /\ strPc' = "loop"
    /\ UNCHANGED <<m_stream_enabled, m_stream_in_progress, m_stream_stop_requested,
                   str_resp, webPc, capPc, waited_ms, flag_writers, stop_seen,
                   late_pulls>>
    /\ UNCHANGED <<slaveVars, masterButCam, frontVars, nameVars, sStreamVars, waitVars, lateVars>>

StreamContinues_Always(enabled) == TRUE

\* while (s_stream_enabled)
StreamContinues(enabled) == enabled

StreamLoopCheck ==
    /\ strPc = "loop"
    /\ strPc' = IF StreamContinues(m_stream_enabled) THEN "stop_check" ELSE "exit1"
    /\ UNCHANGED <<m_stream_enabled, m_stream_in_progress, m_stream_stop_requested,
                   str_resp, webPc, capPc, waited_ms, flag_writers, stop_seen,
                   late_pulls>>
    /\ UNCHANGED <<slaveVars, masterVars, frontVars, nameVars, sStreamVars, waitVars, lateVars>>

\* if (s_stream_stop_requested) break;
StreamStopCheck ==
    /\ strPc = "stop_check"
    /\ strPc' = IF m_stream_stop_requested THEN "exit1" ELSE "fb_get"
    /\ UNCHANGED <<m_stream_enabled, m_stream_in_progress, m_stream_stop_requested,
                   str_resp, webPc, capPc, waited_ms, flag_writers, stop_seen,
                   late_pulls>>
    /\ UNCHANGED <<slaveVars, masterVars, frontVars, nameVars, sStreamVars, waitVars, lateVars>>

\* esp_camera_fb_get(): without a frame the loop goes back to its condition
StreamPull ==
    /\ strPc = "fb_get"
    /\ \E got \in BOOLEAN : strPc' = IF got /\ m_cam.inited THEN "send" ELSE "loop"
    /\ late_pulls' = IF stop_seen THEN late_pulls + 1 ELSE late_pulls
    /\ UNCHANGED <<m_stream_enabled, m_stream_in_progress, m_stream_stop_requested,
                   str_resp, webPc, capPc, waited_ms, flag_writers, stop_seen>>
    /\ UNCHANGED <<slaveVars, masterVars, frontVars, nameVars, sStreamVars, waitVars, lateVars>>

\* the three httpd_resp_send_chunk calls, esp_camera_fb_return and the
\* 20 ms delay; a failed send leaves the loop
StreamSend ==
    /\ strPc = "send"
    /\ \E sent \in BOOLEAN : strPc' = IF sent THEN "loop" ELSE "exit1"
    /\ UNCHANGED <<m_stream_enabled, m_stream_in_progress, m_stream_stop_requested,
                   str_resp, webPc, capPc, waited_ms, flag_writers, stop_seen,
                   late_pulls>>
    /\ UNCHANGED <<slaveVars, masterVars, frontVars, nameVars, sStreamVars, waitVars, lateVars>>

\* s_stream_in_progress = false
StreamExit1 ==
    /\ strPc = "exit1"
    /\ m_stream_in_progress' = FALSE
    /\ strPc' = "exit2"
    /\ stop_seen' = FALSE
    /\ late_pulls' = 0
    /\ UNCHANGED <<m_stream_enabled, m_stream_stop_requested, str_resp, webPc, capPc,
                   waited_ms, flag_writers>>
    /\ UNCHANGED <<slaveVars, masterVars, frontVars, nameVars, sStreamVars, waitVars, lateVars>>

\* s_stream_stop_requested = false; the last chunk ends the reply
StreamExit2 ==
    /\ strPc = "exit2"
    /\ WriteStop("stream", FALSE)
    /\ strPc' = "idle"
    /\ str_resp' = "200 stream ended"
    /\ UNCHANGED <<m_stream_enabled, m_stream_in_progress, webPc, capPc, waited_ms,
                   late_pulls>>
    /\ UNCHANGED <<slaveVars, masterVars, frontVars, nameVars, sStreamVars, waitVars, lateVars>>

\* ---- task of s_httpd
\* stream_start_handler
WebStreamStart ==
    /\ webPc = "idle"
    /\ WriteEnabled("httpd", TRUE)
    /\ UNCHANGED <<m_stream_in_progress, m_stream_stop_requested, strPc, str_resp,
                   webPc, capPc, waited_ms, late_pulls>>
    /\ UNCHANGED <<slaveVars, masterVars, frontVars, nameVars, sStreamVars, waitVars, lateVars>>

\* stream_stop_handler: s_stream_enabled = false
WebStreamStop1 ==
    /\ webPc = "idle"
    /\ WriteEnabled("httpd", FALSE)
    /\ webPc' = "stop_flag"
    /\ UNCHANGED <<m_stream_in_progress, m_stream_stop_requested, strPc, str_resp,
                   capPc, waited_ms, late_pulls>>
    /\ UNCHANGED <<slaveVars, masterVars, frontVars, nameVars, sStreamVars, waitVars, lateVars>>

\* stream_stop_handler: s_stream_stop_requested = true, the stream session
\* is asked to close, the slave is told, OK
WebStreamStop2 ==
    /\ webPc = "stop_flag"
    /\ WriteStop("httpd", TRUE)
    /\ webPc' = "idle"
    /\ UNCHANGED <<m_stream_enabled, m_stream_in_progress, strPc, str_resp, capPc,
                   waited_ms, late_pulls>>
    /\ UNCHANGED <<slaveVars, masterVars, frontVars, nameVars, sStreamVars, waitVars, lateVars>>

\* sensor_handler up to esp_camera_sensor_get: the body is read
WebSensorRead ==
    /\ webPc = "idle"
    /\ webPc' = "sensor"
    /\ UNCHANGED <<m_stream_enabled, m_stream_in_progress, m_stream_stop_requested,
                   strPc, str_resp, capPc, waited_ms, flag_writers, stop_seen,
                   late_pulls>>
    /\ UNCHANGED <<slaveVars, masterVars, frontVars, nameVars, sStreamVars, waitVars, lateVars>>

\* sensor_handler: 500 without a sensor, the setters of the body otherwise
WebSensorApply ==
    /\ webPc = "sensor"
    /\ IF m_cam.inited
       THEN \E body \in SensorInputs :
               m_cam' = IF body.key = "framesize"
                        THEN [m_cam EXCEPT !.fs = parse_framesize(body.value)]
                        ELSE [m_cam EXCEPT !.fmt = parse_pixformat(body.value)]
       ELSE UNCHANGED m_cam
    /\ webPc' = "idle"
    /\ UNCHANGED <<m_stream_enabled, m_stream_in_progress, m_stream_stop_requested,
                   strPc, str_resp, capPc, waited_ms, flag_writers, stop_seen,
                   late_pulls>>
    /\ UNCHANGED <<slaveVars, masterButCam, frontVars, nameVars, sStreamVars, waitVars, lateVars>>

\* capture_handler: the request is queued and the handler blocks on cap->done
WebCapture ==
    /\ webPc = "idle"
    /\ webPc' = "cap_wait"
    /\ UNCHANGED <<m_stream_enabled, m_stream_in_progress, m_stream_stop_requested,
                   strPc, str_resp, capPc, waited_ms, flag_writers, stop_seen,
                   late_pulls>>
    /\ UNCHANGED <<slaveVars, masterVars, frontVars, nameVars, sStreamVars, waitVars, lateVars>>

\* ---- capture_task
\* xQueueReceive returns the request; run_capture_sequence is entered
CapReceive ==
    /\ capPc = "idle"
    /\ webPc = "cap_wait"
    /\ capPc' = "quiesce1"
    /\ UNCHANGED <<m_stream_enabled, m_stream_in_progress, m_stream_stop_requested,
                   strPc, str_resp, webPc, waited_ms, flag_writers, stop_seen,
                   late_pulls>>
    /\ UNCHANGED <<slaveVars, masterVars, frontVars, nameVars, sStreamVars, waitVars, lateVars>>

\* stop_stream_and_wait: s_stream_enabled = false
CapQuiesce1 ==
    /\ capPc = "quiesce1"
    /\ WriteEnabled("capture", FALSE)
    /\ capPc' = "quiesce2"
    /\ UNCHANGED <<m_stream_in_progress, m_stream_stop_requested, strPc, str_resp,
                   webPc, waited_ms, late_pulls>>
    /\ UNCHANGED <<slaveVars, masterVars, frontVars, nameVars, sStreamVars, waitVars, lateVars>>

\* stop_stream_and_wait: s_stream_stop_requested = true, the stream session
\* is asked to close
CapQuiesce2 ==
    /\ capPc = "quiesce2"
    /\ WriteStop("capture", TRUE)
    /\ capPc' = "quiesce_wait"
    /\ waited_ms' = 0
    /\ UNCHANGED <<m_stream_enabled, m_stream_in_progress, strPc, str_resp, webPc,
                   late_pulls>>
    /\ UNCHANGED <<slaveVars, masterVars, frontVars, nameVars, sStreamVars, waitVars, lateVars>>

\* while (s_stream_in_progress && waited_ms < timeout_ms): the function
\* returns when the loop ends, drained or not
CapQuiesceWait ==
    /\ capPc = "quiesce_wait"
    /\ IF m_stream_in_progress /\ waited_ms < QUIESCE_TIMEOUT_MS
       THEN /\ waited_ms' = waited_ms + QuiesceTickMs
            /\ UNCHANGED capPc
       ELSE /\ waited_ms' = 0
            /\ capPc' = "prepare"
    /\ UNCHANGED <<m_stream_enabled, m_stream_in_progress, m_stream_stop_requested,
                   strPc, str_resp, webPc, flag_writers, stop_seen, late_pulls>>
    /\ UNCHANGED <<slaveVars, masterVars, frontVars, nameVars, sStreamVars, waitVars, lateVars>>

\* send_slave_prepare and the settle delay; the camera is still configured
CapPrepare ==
    /\ capPc = "prepare"
    /\ capPc' = "deinit"
    /\ UNCHANGED <<m_stream_enabled, m_stream_in_progress, m_stream_stop_requested,
                   strPc, str_resp, webPc, waited_ms, flag_writers, stop_seen,
                   late_pulls>>
    /\ UNCHANGED <<slaveVars, masterVars, frontVars, nameVars, sStreamVars, waitVars, lateVars>>

\* esp_camera_deinit, power cycle
CapDeinit ==
    /\ capPc = "deinit"
    /\ m_cam' = NoCam
    /\ capPc' = "init"
    /\ UNCHANGED <<m_stream_enabled, m_stream_in_progress, m_stream_stop_requested,
                   strPc, str_resp, webPc, waited_ms, flag_writers, stop_seen,
                   late_pulls>>
    /\ UNCHANGED <<slaveVars, masterButCam, frontVars, nameVars, sStreamVars, waitVars, lateVars>>

\* init_camera_with_format(req->fs, req->fmt): on failure the sequence
\* returns at once
CapInit ==
    /\ capPc = "init"
    /\ \/ /\ \E in \in MasterInputs :
                m_cam' = [inited |-> TRUE, fmt |-> in.fmt, fs |-> in.fs]
          /\ capPc' = "sync"
       \/ /\ UNCHANGED m_cam
          /\ capPc' = "give"
    /\ UNCHANGED <<m_stream_enabled, m_stream_in_progress, m_stream_stop_requested,
                   strPc, str_resp, webPc, waited_ms, flag_writers, stop_seen,
                   late_pulls>>
    /\ UNCHANGED <<slaveVars, masterButCam, frontVars, nameVars, sStreamVars, waitVars, lateVars>>

\* warm-up frames, ready poll, probe, START and the wait: the sequence goes
\* on to the record loop or returns with a failure
CapSync ==
    /\ capPc = "sync"
    /\ capPc' \in {"record", "give"}
    /\ UNCHANGED <<m_stream_enabled, m_stream_in_progress, m_stream_stop_requested,
                   strPc, str_resp, webPc, waited_ms, flag_writers, stop_seen,
                   late_pulls>>
    /\ UNCHANGED <<slaveVars, masterVars, frontVars, nameVars, sStreamVars, waitVars, lateVars>>

\* the record loop
CapRecord ==
    /\ capPc = "record"
    /\ capPc' = "restore_deinit"
    /\ UNCHANGED <<m_stream_enabled, m_stream_in_progress, m_stream_stop_requested,
                   strPc, str_resp, webPc, waited_ms, flag_writers, stop_seen,
                   late_pulls>>
    /\ UNCHANGED <<slaveVars, masterVars, frontVars, nameVars, sStreamVars, waitVars, lateVars>>

\* restore: esp_camera_deinit, power cycle
CapRestoreDeinit ==
    /\ capPc = "restore_deinit"
    /\ m_cam' = NoCam
    /\ capPc' = "restore_init"
    /\ UNCHANGED <<m_stream_enabled, m_stream_in_progress, m_stream_stop_requested,
                   strPc, str_resp, webPc, waited_ms, flag_writers, stop_seen,
                   late_pulls>>
    /\ UNCHANGED <<slaveVars, masterButCam, frontVars, nameVars, sStreamVars, waitVars, lateVars>>

\* restore: init_camera(), whose failure is only logged
CapRestoreInit ==
    /\ capPc = "restore_init"
    /\ m_cam' \in {MasterDefaultCam, NoCam}
    /\ capPc' = "give"
    /\ UNCHANGED <<m_stream_enabled, m_stream_in_progress, m_stream_stop_requested,
                   strPc, str_resp, webPc, waited_ms, flag_writers, stop_seen,
                   late_pulls>>
    /\ UNCHANGED <<slaveVars, masterButCam, frontVars, nameVars, sStreamVars, waitVars, lateVars>>

\* capture_task gives cap->done; capture_handler wakes up and answers
CapGive ==
    /\ capPc = "give"
    /\ capPc' = "idle"
    /\ webPc' = "idle"
    /\ UNCHANGED <<m_stream_enabled, m_stream_in_progress, m_stream_stop_requested,
                   strPc, str_resp, waited_ms, flag_writers, stop_seen, late_pulls>>
    /\ UNCHANGED <<slaveVars, masterVars, frontVars, nameVars, sStreamVars, waitVars, lateVars>>

StreamTaskNext ==
    \/ StreamAccept
    \/ StreamCheck
    \/ StreamMark
    \/ StreamSetFormat
    \/ StreamLoopCheck
    \/ StreamStopCheck
    \/ StreamPull
    \/ StreamSend
    \/ StreamExit1
    \/ StreamExit2

StreamNext ==
    \/ StreamTaskNext
    \/ WebStreamStart
    \/ WebStreamStop1
    \/ WebStreamStop2
    \/ WebSensorRead
    \/ WebSensorApply
    \/ WebCapture
    \/ CapReceive
    \/ CapQuiesce1
    \/ CapQuiesce2
    \/ CapQuiesceWait
    \/ CapPrepare
    \/ CapDeinit
    \/ CapInit
    \/ CapSync
    \/ CapRecord
    \/ CapRestoreDeinit
    \/ CapRestoreInit
    \/ CapGive

StreamSpecInit ==
    SlaveInit /\ MasterOff /\ FrontInit /\ NameOff /\ MStreamInit /\ SStreamOff
              /\ WaitOff /\ LateOff

StreamSpec == StreamSpecInit /\ [][StreamNext]_vars

\* the stream task is scheduled: a step of stream_handler that can be taken
\* is taken (esp_camera_fb_get and the sends return)
StreamFairness ==
    /\ WF_vars(StreamCheck)
    /\ WF_vars(StreamMark)
    /\ WF_vars(StreamSetFormat)
    /\ WF_vars(StreamLoopCheck)
    /\ WF_vars(StreamStopCheck)
    /\ WF_vars(StreamPull)
    /\ WF_vars(StreamSend)
    /\ WF_vars(StreamExit1)
    /\ WF_vars(StreamExit2)

StreamLiveSpec == StreamSpecInit /\ [][StreamNext]_vars /\ StreamFairness

PollSpecInit ==
    SlaveInit /\ MasterOff /\ FrontInit /\ NameOff /\ MStreamOff /\ SStreamOff /\ WaitOff
              /\ PollInit /\ FrameOff

FrameSpecInit ==
    SlaveInit /\ MasterOff /\ FrontInit /\ NameOff /\ MStreamOff /\ SStreamOff /\ WaitOff
              /\ PollOff /\ FrameInit

FrameSpec == FrameSpecInit /\ [][FrameNext]_vars

FrameLiveSpec == FrameSpecInit /\ [][FrameNext]_vars /\ FrameFairness

PollSpec == PollSpecInit /\ [][PollNext]_vars

WaitSpecInit ==
    SlaveInit /\ MasterOff /\ FrontInit /\ NameOff /\ MStreamOff /\ SStreamOff /\ WaitInit
              /\ LateOff

WaitSpec == WaitSpecInit /\ [][WaitNext]_vars

NameSpecInit ==
    SlaveInit /\ MasterOff /\ FrontInit /\ NameInit /\ MStreamOff /\ SStreamOff
              /\ WaitOff /\ LateOff

NameSpec == NameSpecInit /\ [][NameNext]_vars

\* the parts outside the capture core are not part of its specifications
ExtOff == NameOff /\ MStreamOff /\ SStreamOff /\ WaitOff /\ LateOff

MasterNext ==
    \/ MSensor
    \/ MCaptureHandler
    \/ MPrepare
    \/ MDeinit
    \/ MReinit
    \/ MReadyPoll
    \/ MProbeOpen
    \/ MProbePing
    \/ MProbeFinish
    \/ MProbeResult
    \/ MCompute
    \/ MStartAttempt
    \/ MWaitInit
    \/ MWait
    \/ MRecordFrame
    \/ MRestoreDeinit
    \/ MRestore

\* the slave task state is at its boot value and does not move
MasterSpecInit == SlaveInit /\ MasterInit /\ FrontInit /\ ExtOff

MasterSpec == MasterSpecInit /\ [][MasterNext]_vars

Init == SlaveInit /\ MasterOff /\ FrontInit /\ ExtOff

Next ==
    \/ HttpCaptureRequest
    \/ PrepTake1
    \/ PrepCheck
    \/ PrepQuiesce
    \/ PrepCamera
    \/ PrepTake2
    \/ PrepStore
    \/ UdpReady
    \/ UdpStart
    \/ UdpStartReply
    \/ UdpLaunchTake
    \/ UdpLaunchCheck
    \/ UdpRunInit
    \/ UdpRunWait
    \/ UdpRunFrame
    \/ UdpRunRestore
    \/ UdpFinishTake
    \/ UdpFinishClear
    \/ UdpProbe
    \/ UdpOther
    \/ SlaveTick

Spec == Init /\ [][Next]_vars

\* both slave tasks are scheduled: a step of a handler that has begun is
\* taken, whatever datagrams and requests arrive
SlaveFairness ==
    /\ WF_vars(PrepTake1)
    /\ WF_vars(PrepCheck)
    /\ WF_vars(PrepQuiesce)
    /\ WF_vars(PrepCamera)
    /\ WF_vars(PrepTake2)
    /\ WF_vars(PrepStore)
    /\ WF_vars(UdpStartReply)
    /\ WF_vars(UdpLaunchTake)
    /\ WF_vars(UdpLaunchCheck)
    /\ WF_vars(UdpRunInit)
    /\ WF_vars(UdpRunWait)
    /\ WF_vars(UdpRunFrame)
    /\ WF_vars(UdpRunRestore)
    /\ WF_vars(UdpFinishTake)
    /\ WF_vars(UdpFinishClear)

SlaveLiveSpec == Init /\ [][Next]_vars /\ SlaveFairness

SlaveCamNext ==
    \/ Next
    \/ SStreamStart
    \/ SStreamStop
    \/ SSensor
    \/ SStreamEnter
    \/ SStreamTurn
    \/ SStreamPull
    \/ SStreamExit

SlaveCamSpecInit ==
    SlaveInit /\ MasterOff /\ FrontInit /\ NameOff /\ MStreamOff /\ SStreamInit
              /\ WaitOff /\ LateOff

SlaveCamSpec == SlaveCamSpecInit /\ [][SlaveCamNext]_vars

QueueNext ==
    \/ \E h \in Handlers : HCaptureRequest(h)
    \/ \E h \in Handlers : HSendOk(h)
    \/ \E h \in Handlers : HSendWait(h)
    \/ \E h \in Handlers : HSendTimeout(h)
    \/ TaskReceive
    \/ TaskStep
    \/ TaskDone

QueueSpec == Init /\ [][QueueNext]_vars

(***************************************************************************)
(* Slave: properties                                                       *)
(***************************************************************************)
SlaveTypeOK ==
    /\ s_capture_ready \in BOOLEAN
    /\ s_capture_in_progress \in BOOLEAN
    /\ s_capture_mutex \in {"free", "http", "udp"}
    /\ udpPc \in {"recv", "start_reply"} \cup CaptureStates

\* C1: on the slave the flags s_capture_ready and s_capture_in_progress are
\* never both true, whatever the interleaving of prepare requests, READY /
\* START / probe datagrams and capture completion.
C1_SlotExclusive == ~(s_capture_ready /\ s_capture_in_progress)

\* a prepare request was refused because a launched capture is running
C1_Witness ==
    /\ s_capture_in_progress
    /\ udpPc \in CaptureStates
    /\ httpResp = "409 capture busy"

\* C2: a START datagram with an integer >= 0 that finds the slot armed is
\* answered ACK and the slot goes to in_progress = TRUE, ready = FALSE; every
\* other START datagram is answered NO and leaves ready, in_progress and the
\* stored request unchanged.
C2_StartHandling ==
    [][ /\ UdpStart =>
              IF StartDelayGood(rx_buf') /\ SlotArmed
              THEN udp_resp' = ACK
              ELSE udp_resp' = NO
        /\ (UdpStart \/ UdpStartReply) => UNCHANGED slotVars
        /\ (UdpLaunchCheck /\ udp_tx = ACK) =>
              (s_capture_in_progress' /\ ~s_capture_ready') ]_vars

\* C3: a READY datagram is answered OK if and only if the slot is ready and
\* not in progress at the moment it is handled, also while another task
\* holds the slot mutex; otherwise it is answered NO.
C3_ReadyReply ==
    [][ UdpReady => /\ udp_tx' \in {OK, NO}
                    /\ (udp_tx' = OK) <=> SlotArmed ]_vars

\* C4: for an acknowledged START the ACK has been passed to sendto before
\* the capture is launched: before the slot goes to in_progress, before the
\* wait to the deadline and before the first frame pull of that capture.
C4_AckBeforeLaunch ==
    /\ udpPc \in CaptureStates =>
          /\ replied
          /\ udp_tx = ACK
          /\ HasPrefix(rx_buf, START)
    /\ (udpPc = "start_reply" \/ ~replied) =>
          /\ frames_pulled = 0
          /\ start_time_us = 0
          /\ req_copy = ZeroRequest

\* an acknowledged capture has pulled a frame
C4_Witness ==
    /\ udpPc = "run_frames"
    /\ s_capture_in_progress
    /\ frames_pulled >= 1
    /\ udp_tx = ACK

\* C5: handling a READY datagram, a decimal-integer probe datagram or an
\* unrecognised datagram never changes the capture slot: ready, in_progress
\* and the stored request are the same before and after.
C5_NoSlotEffect ==
    [][ (UdpReady \/ UdpProbe \/ UdpOther) => UNCHANGED slotVars ]_vars

\* a probe was answered with the slave clock while the slot was armed
C5_Witness ==
    /\ s_capture_ready
    /\ s_capture_req # ZeroRequest
    /\ udpPc = "recv"
    /\ rx_buf = <<"7">>
    /\ udp_tx = FormatInt64(slave_now)

(***************************************************************************)
(* Master: start delays and clock probe                                    *)
(***************************************************************************)
\* the delays have been computed and the sequence has not returned
Computed == mPc \in {"start", "wait_init", "wait", "record"}

\* the probe metrics the sequence uses: (0, 0) when sync was skipped
UsedTrip == IF slave_ready THEN metrics.trip_time_us ELSE 0

UsedDisp == IF slave_ready THEN metrics.cpu_disparity_us ELSE 0

\* S as the request defines it: the cpu_time_to_start override of the query,
\* in microseconds, when it is > 0, else the configured default
RequestSafetyUs ==
    IF m_req.query_ms > 0 THEN m_req.query_ms * 1000
    ELSE CONFIG_CAPSEQ_SYNC_SAFETY_MS * 1000

Max0(x) == IF x < 0 THEN 0 ELSE x

\* C6 as stated: master_delay_us - slave_delay_us = trip + disp for every
\* computed pair of delays, also when S + trip + disp is negative
C6_DelayIdentity ==
    Computed =>
        calc.master_start_delay_us - calc.slave_start_delay_us = UsedTrip + UsedDisp

\* C6 amended: master_delay_us - slave_delay_us = trip + disp whenever
\* S + trip + disp >= 0; when S + trip + disp is negative the master delay is
\* clamped to 0 and the difference is -S
C6_DelayIdentityClamped ==
    Computed =>
        LET S == calc.slave_start_delay_us IN
        IF S + UsedTrip + UsedDisp >= 0
        THEN calc.master_start_delay_us - S = UsedTrip + UsedDisp
        ELSE calc.master_start_delay_us = 0
             /\ calc.master_start_delay_us - S = 0 - S

\* C6 witness: delays computed from a probe whose S + trip + disp is negative
C6_Witness ==
    /\ Computed
    /\ slave_ready
    /\ calc.slave_start_delay_us + UsedTrip + UsedDisp < 0
    /\ calc.master_start_delay_us = 0

\* C7: every START datagram of a sequence carries exactly S, and the master's
\* deadline lies max(0, S + trip + disp) after the instant its wait begins
\* (the wait ends less than one busy-wait step past it), with S the request's
\* override in microseconds when > 0 and the configured default otherwise,
\* and (trip, disp) the probe metrics or (0, 0) when sync was skipped
C7_StartAndWaitDelays ==
    /\ \A i \in 1..Len(start_tx) :
          start_tx[i] = START \o <<" ">> \o FormatInt64(RequestSafetyUs)
    /\ mPc \in {"wait", "record"} =>
          m_start_time_us - wait_from = Max0(RequestSafetyUs + UsedTrip + UsedDisp)
    /\ mPc = "record" =>
          /\ m_now - wait_from >= Max0(RequestSafetyUs + UsedTrip + UsedDisp)
          /\ m_now - wait_from < Max0(RequestSafetyUs + UsedTrip + UsedDisp)
                                 + BUSY_WAIT_US

\* C7 witness: a request with an override, START acknowledged, a probe with a
\* non-zero disparity, and the wait over
C7_Witness ==
    /\ mPc = "record"
    /\ m_req.query_ms > 0
    /\ start_acked_at >= 0
    /\ Len(start_tx) >= 1
    /\ UsedDisp # 0
    /\ m_start_time_us - wait_from > 0

\* the probe measured the network exactly
ExactMetrics ==
    /\ slave_ready
    /\ metrics.trip_time_us = net_lat
    /\ metrics.cpu_disparity_us = 0 - clk_off

\* C8 as stated: with exact probe metrics and START acknowledged on the first
\* attempt, the master's deadline and the slave's deadline (brought to the
\* master's clock) are the same instant up to the wait granularity
C8_SameInstant ==
    (mPc = "record" /\ start_acked_at = 0 /\ ExactMetrics) =>
        LET slave_deadline == sl_start_time_us - clk_off
            d == m_start_time_us - slave_deadline
        IN  d <= BUSY_WAIT_US /\ 0 - d <= BUSY_WAIT_US

RECURSIVE SumRtt(_)
SumRtt(log) ==
    IF log = << >> THEN 0
    ELSE (IF Head(log).kind = "ok" THEN Head(log).recv - Head(log).send ELSE 0)
         + SumRtt(Tail(log))

RECURSIVE SumDisparity(_)
SumDisparity(log) ==
    IF log = << >> THEN 0
    ELSE (IF Head(log).kind = "ok"
          THEN Head(log).send + CDiv(Head(log).recv - Head(log).send, 2)
               - Head(log).stamp
          ELSE 0)
         + SumDisparity(Tail(log))

Successful(log) == Cardinality({i \in 1..Len(log) : log[i].kind = "ok"})

\* C9: when the probe returns, it reports an error with both metrics 0 if no
\* ping got a parseable reply; otherwise the trip is half the mean round trip
\* and the disparity the mean of send_time + rtt/2 - slave_time, both over
\* exactly the pings that got a parseable reply (integer division)
C9_ProbeMeans ==
    mPc = "probed" =>
        LET n == Successful(pings) IN
        IF n = 0
        THEN sync_err = "ESP_FAIL" /\ metrics = NoMetrics
        ELSE /\ sync_err = "ESP_OK"
             /\ metrics.trip_time_us = CDiv(CDiv(SumRtt(pings), n), 2)
             /\ metrics.cpu_disparity_us = CDiv(SumDisparity(pings), n)

\* C9 witness: a finished probe with a timed-out ping, a malformed reply and
\* at least two good samples
C9_Witness ==
    /\ mPc = "probed"
    /\ Len(pings) = CONFIG_CAPSEQ_SYNC_UDP_PINGS
    /\ Successful(pings) >= 2
    /\ \E i \in 1..Len(pings) : pings[i].kind = "timeout"
    /\ \E i \in 1..Len(pings) : pings[i].kind = "malformed"
    /\ metrics.cpu_disparity_us # 0

\* scenario S1 ran to the end: the S1 request against the S1 network, slave
\* ready, START acknowledged, every frame written
S1Done ==
    /\ mPc = "done"
    /\ m_req.session = "s"
    /\ m_req.query_ms = S1.safety_ms
    /\ m_req.frame_count = S1.frame_count
    /\ clk_off = S1.offset
    /\ net_script \in S1Scripts("send") \cup S1Scripts("mid")
    /\ start_acked_at >= 0
    /\ m_frame_i = S1.frame_count
    /\ frames_failed = 0

\* C10 as stated: in scenario S1 the master computes trip = 2000,
\* slave_delay = 50000 and master_delay = 44000, persists three files and
\* reports OK
C10_S1 ==
    S1Done =>
        /\ calc.trip_time_us = 2000
        /\ calc.slave_start_delay_us = 50000
        /\ calc.master_start_delay_us = 44000
        /\ files_persisted = 3
        /\ m_req.result = "ESP_OK"

\* C10 amended: in scenario S1 the master computes trip = 2000 and
\* slave_delay = 50000, persists three files and reports OK; master_delay is
\* 44000 when each slave time stamp is the ping's send time plus the offset,
\* and 42000 when the slave stamps in the middle of the round trip
C10_S1_ByStamp ==
    S1Done =>
        /\ calc.trip_time_us = 2000
        /\ calc.slave_start_delay_us = 50000
        /\ calc.master_start_delay_us =
              (IF net_script \in S1Scripts("send") THEN 44000 ELSE 42000)
        /\ files_persisted = 3
        /\ m_req.result = "ESP_OK"

\* C10 witness: scenario S1 ran to the end with send-time stamps and the
\* master delay was 44000
C10_Witness ==
    /\ S1Done
    /\ net_script \in S1Scripts("send")
    /\ calc.master_start_delay_us = 44000
    /\ files_persisted = 3

(***************************************************************************)
(* Master: capture queue                                                   *)
(***************************************************************************)
\* requests accepted and not yet answered: in the queue or being run
Pending == {h \in Handlers : h_state[h] = "waiting"}

InQueue(h) == \E i \in 1..Len(s_capture_queue) : s_capture_queue[i] = h

\* C11: the queue never holds more than its capacity C = 2, at most C + 1
\* requests are pending (C queued plus the one running), a request is
\* rejected with 409 "capture busy" only out of an xQueueSend that stayed
\* blocked on the full queue, and a rejected request is never queued, run
\* or executed
C11_QueueBound ==
    /\ Len(s_capture_queue) <= CAPTURE_QUEUE_LEN
    /\ Cardinality(Pending) <= CAPTURE_QUEUE_LEN + 1
    /\ Pending = {h \in Handlers : InQueue(h) \/ task_req = h}
    /\ \A h \in Handlers :
          (h_state[h] = "sending" /\ h_waited[h] > 0) =>
              h \notin executed /\ ~InQueue(h) /\ task_req # h
    /\ \A h \in Handlers :
          h_resp[h] = "409 capture busy" =>
              /\ h_state[h] = "replied"
              /\ h \notin executed
              /\ ~InQueue(h)
              /\ task_req # h

\* C11 witness: a request was rejected while two are queued and one runs
C11_Witness ==
    /\ \E h \in Handlers : h_resp[h] = "409 capture busy"
    /\ Len(s_capture_queue) = CAPTURE_QUEUE_LEN
    /\ task_req # 0
    /\ task_step > 0

\* C12 as stated: a request that arrived while a capture sequence was running
\* is not accepted: it is still inside its xQueueSend, for at most one
\* second, or it was answered 409 "capture busy"
C12_BusyRejected ==
    \A h \in Handlers :
        h_busy_on_arrival[h] =>
            /\ h_state[h] = "sending"
            /\ h_waited[h] <= QUEUE_SEND_TIMEOUT_MS

\* C13: capture_task takes up a request only when it is running none, each
\* step of a sequence belongs to the one request it is running, and a request
\* whose sequence was started and that is not answered yet is that request
C13_OneSequenceAtATime ==
    [][ /\ (task_req' # task_req /\ task_req' # 0) =>
              (task_req = 0 /\ task_step' = 0)
        /\ (task_req' # task_req /\ task_req # 0) =>
              (task_err # "running" /\ h_state'[task_req] = "replied")
        /\ \A h \in executed' :
              (h_state'[h] # "replied") => task_req' = h ]_vars

\* C13 witness: one request ran to the end and was answered, the next one is
\* in the middle of its sequence and a third one waits in the queue
C13_Witness ==
    /\ \E h \in Handlers : h_resp[h] = "200 OK"
    /\ task_req # 0
    /\ task_step >= 3
    /\ Len(s_capture_queue) >= 1

(***************************************************************************)
(* Master: camera state around a capture                                   *)
(***************************************************************************)
\* C14 as stated: whenever the capture sequence has returned, the camera is
\* initialised in the streaming default (JPEG, default frame size)
C14_RestoredOnEveryPath ==
    mPc = "done" => m_cam = MasterDefaultCam

\* the sequence returned ESP_OK
CaptureCompleted == mPc = "done" /\ m_req.result = "ESP_OK"

\* C15 as stated: after a successfully completed capture the camera state
\* equals the camera state right before the stream was quiesced
C15_RestoreToPrevious ==
    CaptureCompleted => m_cam = cam_before

\* C15 amended: after a successfully completed capture the camera is in the
\* streaming default (JPEG, default frame size) or, when the restoring
\* init_camera() failed, uninitialised; so it equals the state before the
\* capture only if that state was the streaming default and the init succeeded
C15_RestoreToDefault ==
    CaptureCompleted =>
        /\ m_cam \in {MasterDefaultCam, NoCam}
        /\ (m_cam = cam_before) <=>
              (cam_before = MasterDefaultCam /\ m_cam.inited)

\* C15 witness: a capture completed after the sensor endpoint had changed the
\* frame size, and the camera came back in the default
C15_Witness ==
    /\ CaptureCompleted
    /\ cam_before.fs = "QVGA"
    /\ cam_before.fmt = "JPEG"
    /\ m_cam = MasterDefaultCam
    /\ files_persisted >= 1

\* C16 as stated: the pixel format of an initialised camera never changes in
\* one step; a different format is only seen after the camera was
\* uninitialised in between
C16_FormatSwitchViaDeinit ==
    [][ (m_cam.inited /\ m_cam'.inited) => m_cam'.fmt = m_cam.fmt ]_vars

\* ---------------------------------------------------------------------
\* slave missing, START dispatch and the record step
\* ---------------------------------------------------------------------

\* the probe ran (so READY had been answered) and returned without a sample
ProbeEmpty == probe_result = "failed" /\ mPc # "probed"

\* C17 (S3): when READY was answered, the probe yields no sample and a
\* missing slave is allowed, no START is ever sent, both start delays are
\* exactly the safety overhead S, the master waits exactly S from the moment
\* it takes its deadline, every frame of the request is attempted and the
\* request ends OK
C17_S3_ProbeEmptyAllowed ==
    (allow_missing /\ ProbeEmpty) =>
        /\ start_tx = << >>
        /\ mPc \in {"compute", "wait_init", "wait", "record", "restore_init", "done"}
        /\ mPc # "compute" =>
              /\ calc.slave_start_delay_us = RequestSafetyUs
              /\ calc.master_start_delay_us = RequestSafetyUs
        /\ mPc \in {"wait", "record", "restore_init"} =>
              m_start_time_us - wait_from = RequestSafetyUs
        /\ mPc \in {"record", "restore_init"} => m_now >= m_start_time_us
        /\ mPc = "done" =>
              /\ m_req.result = "ESP_OK"
              /\ m_frame_i = m_req.frame_count
              /\ files_persisted + frames_failed = m_req.frame_count

C17_Witness ==
    /\ allow_missing
    /\ ProbeEmpty
    /\ mPc = "done"
    /\ m_req.result = "ESP_OK"
    /\ start_tx = << >>
    /\ files_persisted = m_req.frame_count
    /\ calc.master_start_delay_us = RequestSafetyUs

\* the slave is missing for a build that does not allow it: the ready poll
\* timed out, or the probe returned without a sample
SlaveMissingDenied ==
    /\ ~allow_missing
    /\ sync_err = "ESP_ERR_TIMEOUT" \/ ProbeEmpty

MissingFailure ==
    /\ mPc = "done"
    /\ m_req.result = "ESP_FAIL"
    /\ sync_err = "ESP_ERR_TIMEOUT" => m_req.err_msg = "slave not ready"
    /\ ProbeEmpty => m_req.err_msg = "udp sync failed"
    /\ start_tx = << >>
    /\ files_persisted = 0

\* C18 (S4) as stated: a missing slave that is not allowed fails the request
\* with 'slave not ready' / 'udp sync failed', no START is sent and no frame
\* is pulled from the camera or persisted
C18_S4_NoFramePulled ==
    SlaveMissingDenied => (MissingFailure /\ m_frames_pulled = 0)

\* C18 (S4), amended: the same, except that the warm-up frames dropped right
\* after the reconfiguration have been pulled; no frame of the record step
\* is pulled and none is persisted
C18_S4_NoFrameRecorded ==
    SlaveMissingDenied =>
        /\ MissingFailure
        /\ m_frame_i = 0
        /\ frames_failed = 0
        /\ m_frames_pulled = CONFIG_CAPSEQ_DROP_FRAMES

C18_Witness ==
    /\ ~allow_missing
    /\ sync_err = "ESP_ERR_TIMEOUT"
    /\ mPc = "done"
    /\ m_req.err_msg = "slave not ready"
    /\ m_frames_pulled = CONFIG_CAPSEQ_DROP_FRAMES

StartAcked == \E i \in 1..Len(start_rx) : HasPrefix(start_rx[i], ACK)

\* the start dispatch has returned to run_capture_sequence
StartOver ==
    /\ Len(start_tx) > 0
    /\ mPc \in {"wait_init", "wait", "record", "restore_init", "done"}

TwoDrops == << << >>, << >> >>

\* C19: the START dispatch makes at most start-retries attempts, stops at
\* the first ACK and fails exactly when no attempt was acknowledged; with
\* the first two STARTs dropped and the third acknowledged (S6) the request
\* ends OK for start-retries = 3, and with start-retries = 2 it fails with
\* 'slave start failed'
C19_StartRetries ==
    /\ Len(start_tx) = Len(start_rx)
    /\ Len(start_tx) <= start_retries
    /\ \A i \in 1..(Len(start_rx) - 1) : ~HasPrefix(start_rx[i], ACK)
    /\ StartOver =>
          IF StartAcked
          THEN /\ sync_err = "ESP_OK"
               /\ start_acked_at = Len(start_rx) - 1
               /\ m_req.err_msg # "slave start failed"
          ELSE /\ Len(start_tx) = start_retries
               /\ sync_err # "ESP_OK"
               /\ ~allow_missing =>
                     /\ mPc = "done"
                     /\ m_req.err_msg = "slave start failed"
                     /\ m_req.result = "ESP_FAIL"
    /\ (start_retries = 3 /\ start_rx = TwoDrops \o <<ACK>> /\ mPc = "done") =>
          m_req.result = "ESP_OK"
    /\ (start_retries = 2 /\ start_rx = TwoDrops /\ ~allow_missing) =>
          /\ mPc \in {"start", "done"}
          /\ mPc = "done" => m_req.err_msg = "slave start failed"

C19_Witness ==
    /\ start_retries = 3
    /\ start_rx = TwoDrops \o <<ACK>>
    /\ mPc = "done"
    /\ m_req.result = "ESP_OK"
    /\ files_persisted >= 1

\* the record step ran through its loop
RecordOver == mPc \in {"restore_init", "done"} /\ m_frame_i >= 1

\* C20: a frame that cannot be pulled or whose file cannot be opened does
\* not stop the remaining frames, and the request fails when none of its
\* frames was persisted (it succeeds when at least one was)
C20_NoFilePersistedFails ==
    RecordOver =>
        /\ m_frame_i = m_req.frame_count
        /\ files_persisted + frames_failed = m_req.frame_count
        /\ mPc = "done" => (m_req.result = "ESP_OK" <=> files_persisted >= 1)

(***************************************************************************)
(* Naming: properties                                                      *)
(***************************************************************************)
FourExts == [JPEG |-> <<"j", "p", "g">>,
             RGB565 |-> <<"r", "g", "b", "5", "6", "5">>,
             GRAYSCALE |-> <<"g", "r", "a", "y">>,
             YUV422 |-> <<"y", "u", "v">>]

\* C21: every persisted frame is named <session>-<monotonic_ms>.<ext>, with
\* ext one of jpg, rgb565, gray, yuv and given by the pixel format of the
\* request alone (JPEG -> jpg, RGB565 -> rgb565, grayscale -> gray,
\* YUV422 -> yuv), whatever pixel_format value the request carried
C21_ExtensionFromFormat ==
    n_path # << >> =>
        \E now_us \in NameClockUs, f \in DOMAIN FourExts :
            /\ n_path = CAPTURE_DIR \o <<"/">> \o n_session \o <<"-">>
                            \o FormatInt64(now_us \div 1000) \o <<".">> \o FourExts[f]
            /\ n_fmt \in DOMAIN FourExts => f = n_fmt

(***************************************************************************)
(* Slave: prepare requests that find the slot taken                        *)
(***************************************************************************)
\* C22: a prepare request that finds the slot ready or in_progress is
\* answered 409 and changes nothing: up to and including the check, the
\* handler leaves ready, in_progress, the stored request, the stream flags
\* and the camera configuration as they were
C22_BusyPrepareRejected ==
    [][ (/\ httpPc \in {"idle", "prep_take1", "prep_check"}
         /\ httpPc' # httpPc
         /\ httpPc = "prep_check" => (s_capture_ready \/ s_capture_in_progress))
        => /\ UNCHANGED <<slotVars, streamVars, s_cam>>
           /\ httpPc = "prep_check" =>
                 /\ httpResp' = "409 capture busy"
                 /\ httpPc' = "idle" ]_vars

C22_Witness ==
    /\ httpPc = "idle"
    /\ httpResp = "409 capture busy"
    /\ s_capture_in_progress
    /\ ~s_capture_ready
    /\ s_capture_req # ZeroRequest

(***************************************************************************)
(* Master: the reply to an executed request                                *)
(***************************************************************************)
Diagnostics == {"camera init failed", "slave not ready", "udp sync failed",
                "slave start failed"}

\* C23: a request accepted into the queue is executed and its requester is
\* signalled once; the requester then answers OK exactly when the sequence
\* returned success, and otherwise 500 with one of 'camera init failed',
\* 'slave not ready', 'udp sync failed', 'slave start failed'
C23_ReplyAfterSequence ==
    [][ (task_req # 0 /\ task_req' = 0)
        => /\ task_req \in executed
           /\ h_state[task_req] = "waiting"
           /\ h_state'[task_req] = "replied"
           /\ IF task_err = "ESP_OK"
              THEN h_resp'[task_req] = "200 OK"
              ELSE \E d \in Diagnostics : h_resp'[task_req] = "500 " \o d ]_vars

(***************************************************************************)
(* Streaming: properties                                                   *)
(***************************************************************************)
\* C24: a GET /stream that finds streaming disabled or a stream already
\* active is answered 409 and does not enter the loop; any other request
\* goes on to the loop; and the loop runs only in the one handler that has
\* set s_stream_in_progress, so that at most one loop pulls frames
C24_StreamGate ==
    [][ /\ (strPc = "check" /\ strPc' # "check") =>
              IF ~m_stream_enabled \/ m_stream_in_progress
              THEN /\ strPc' = "idle"
                   /\ str_resp' \in {"409 stream disabled", "409 stream already active"}
                   /\ UNCHANGED <<m_stream_in_progress, m_cam>>
              ELSE strPc' = "mark"
        /\ strPc' \in StreamLoopPositions => m_stream_in_progress' ]_vars

\* C24: a request was refused because streaming is disabled
C24_Witness == strPc = "idle" /\ str_resp = "409 stream disabled" /\ ~m_stream_enabled

\* positions of run_capture_sequence from the end of the quiesce to the end
\* of the restore
CaptureRunning ==
    capPc \in {"prepare", "deinit", "init", "sync", "record", "restore_deinit",
               "restore_init"}

\* a step in which a task other than capture_task uses the camera: the
\* stream loop sets the sensor format or calls esp_camera_fb_get, the
\* sensor endpoint applies its body
ForeignCameraStep ==
    \/ strPc = "set_format" /\ strPc' = "loop" /\ m_cam.inited
    \/ strPc = "fb_get" /\ strPc' # "fb_get"
    \/ webPc = "sensor" /\ webPc' = "idle" /\ m_cam.inited

\* C25: while a master capture sequence runs, from the end of the quiesce to
\* the end of the restore, no task other than the capture task uses the
\* camera: the stream loop pulls no frame and sets no sensor register and
\* the sensor endpoint changes no register
C25_CameraExclusive == [][ CaptureRunning => ~ForeignCameraStep ]_vars

\* C29: each of s_stream_enabled and s_stream_stop_requested is written by
\* one task only
C29_SingleWriter ==
    /\ Cardinality(flag_writers.enabled) <= 1
    /\ Cardinality(flag_writers.stop) <= 1

\* C30: once s_stream_enabled is cleared or s_stream_stop_requested is set
\* while a streaming loop runs, the loop calls esp_camera_fb_get at most
\* once more, and s_stream_in_progress becomes false; it becomes false after
\* every quiesce (stop_stream_and_wait) and every stop request
\* (stream_stop_handler)
C30_StopHonoured ==
    /\ [](late_pulls <= 1)
    /\ (stop_seen ~> ~m_stream_in_progress)
    /\ (capPc = "quiesce_wait" ~> ~m_stream_in_progress)
    /\ (webPc = "stop_flag" ~> ~m_stream_in_progress)

\* C30: the loop was asked to stop, pulled one more frame and has left the
\* loop, about to clear s_stream_in_progress
C30_Witness ==
    stop_seen /\ late_pulls = 1 /\ strPc = "exit1" /\ m_stream_in_progress

(***************************************************************************)
(* Slave camera ownership: properties                                      *)
(***************************************************************************)
\* a step in which the camera of the slave is used from outside the capture
\* engine: stream_handler sets the sensor format or calls
\* esp_camera_fb_get, sensor_handler sets a register
SlaveForeignCameraStep ==
    \/ sStrPc = "idle" /\ sStrPc' = "loop" /\ s_cam.inited
    \/ sStrPc = "fb_get" /\ sStrPc' = "loop"
    \/ httpPc = "idle" /\ httpPc' = "idle" /\ UNCHANGED <<udpPc, sStrPc>> /\ s_cam' # s_cam

\* C26: on the slave, whenever the slot is ready or in progress nothing but
\* the capture engine uses the camera: the stream loop pulls no frame and
\* sets no sensor register, the sensor endpoint sets no sensor register
C26_SlaveCameraExclusive ==
    [][ (s_capture_ready \/ s_capture_in_progress) => ~SlaveForeignCameraStep ]_vars

(***************************************************************************)
(* The wait for the deadline: properties                                   *)
(***************************************************************************)
\* C28: on master and slave the record loop is entered, and the first frame
\* pulled, at a local time not before (time at which the wait started) +
\* delay
C28_NoPullBeforeDeadline ==
    /\ w_pc \in {"record", "pulled"} => w_now >= w_from + w_delay
    /\ w_pull_at # -1 => w_pull_at >= w_from + w_delay

\* C28: the slave pulled its first frame after a wait that began with a
\* coarse sleep and ended with busy-waits
C28_Witness ==
    /\ w_pc = "pulled"
    /\ w_dev = "slave"
    /\ w_delay = 2500
    /\ w_pull_at = w_from + w_delay

(***************************************************************************)
(* Order of a master capture sequence: properties                          *)
(***************************************************************************)
\* a ping of the clock probe is sent
ProbePingStep == Len(pings') > Len(pings)

\* a START datagram is sent
StartSendStep == Len(start_tx') > Len(start_tx)

\* start_time_us is computed
DeadlineStep == m_start_time_us' # m_start_time_us

\* a frame of the record loop is pulled
RecordPullStep == m_frame_i' > m_frame_i

\* frames that the record loop has pulled
RecordPulls == files_persisted + frames_failed

\* C27: in a master capture sequence the probe follows a READY poll that was
\* answered OK, the first START follows a successful probe, the deadline is
\* computed after the START exchange has ended (acknowledged, or all
\* attempts used) and before any recorded frame is pulled, no START follows
\* the deadline, and no START is sent when the ready poll or the probe
\* failed
C27_SequenceOrder ==
    [][ /\ ProbePingStep =>
              /\ slave_ready
              /\ start_tx = << >>
              /\ m_start_time_us = 0
              /\ RecordPulls = 0
        /\ StartSendStep =>
              /\ slave_ready
              /\ probe_result = "ok"
              /\ m_start_time_us = 0
              /\ RecordPulls = 0
        /\ DeadlineStep =>
              /\ mPc = "wait_init"
              /\ start_tx # << >> => (start_acked_at # -1 \/ attempt = start_retries)
              /\ slave_ready => start_tx # << >>
              /\ RecordPulls = 0
        /\ RecordPullStep =>
              /\ mPc = "record"
              /\ m_start_time_us > 0
              /\ m_now >= m_start_time_us ]_vars

\* C27: a sequence went through ready poll, probe, an acknowledged START,
\* the deadline and its record loop
C27_Witness ==
    /\ mPc = "done"
    /\ slave_ready
    /\ probe_result = "ok"
    /\ start_tx # << >>
    /\ start_acked_at # -1
    /\ m_start_time_us >= MasterBootUs
    /\ RecordPulls >= 1

(***************************************************************************)
(* Slave slot mutex: properties                                            *)
(***************************************************************************)
\* positions of prepare_slave_capture between its two mutex sections: the
\* stream flags, the camera reinit or sensor update, the dropped frames
PrepCameraPositions == {"prep_quiesce", "prep_camera", "prep_take2"}

\* positions of run_slave_capture: wait to the deadline, frame pulls, file
\* writes, camera restore
RunPositions == {"run_init", "run_wait", "run_frames", "run_restore", "finish_take"}

\* C31: the slot mutex is never held by a task that runs a camera operation:
\* the HTTP task holds it only in the check and store sections of prepare,
\* the sync task only in the flip and clear sections of start_slave_capture
C31_MutexNotAcrossCamera ==
    /\ httpPc \in PrepCameraPositions => s_capture_mutex # "http"
    /\ udpPc \in RunPositions => s_capture_mutex # "udp"
    /\ s_capture_mutex = "http" => httpPc \in {"prep_check", "prep_store"}
    /\ s_capture_mutex = "udp" => udpPc \in {"launch_check", "finish_clear"}

\* C31: a frame of a capture was pulled and the camera is being restored
\* while the HTTP task is inside a mutex section of its own
C31_Witness ==
    /\ udpPc = "run_restore"
    /\ frames_pulled >= 1
    /\ s_capture_mutex = "http"

(***************************************************************************)
(* Ready poll: properties                                                  *)
(***************************************************************************)
\* floor(timeout / poll_interval) + 1
MaxPolls == p_timeout_ms \div p_poll_ms + 1

AnsweredOK(x) == x.net = "reply" /\ x.reply = OK

\* C32: the ready poll returns ESP_OK at the first READY exchange answered
\* OK and keeps polling after NO, a malformed reply, a receive timeout or a
\* resolve failure, and returns ESP_ERR_TIMEOUT after
\* floor(timeout / poll_interval) + 1 polls none of which was answered OK
C32_ReadyPollTerminates ==
    /\ p_polls <= MaxPolls
    /\ p_ret = "ESP_OK" <=> AnsweredOK(p_last)
    /\ p_pc = "returned" => p_ret \in {"ESP_OK", "ESP_ERR_TIMEOUT"}
    /\ p_ret = "ESP_ERR_TIMEOUT" => p_polls = MaxPolls
    /\ p_pc = "loop" => p_ret = "none" /\ p_elapsed = p_polls * p_poll_ms

\* C32: with the defaults of the source the poll gave up after 26 exchanges,
\* the last of which brought a malformed reply
C32_Witness ==
    /\ p_pc = "returned"
    /\ p_ret = "ESP_ERR_TIMEOUT"
    /\ p_timeout_ms = CONFIG_CAPSEQ_SLAVE_READY_TIMEOUT_MS
    /\ p_polls = 26
    /\ p_last = [net |-> "reply", reply |-> ERR]

StartAckStep == udpPc = "recv" /\ udpPc' = "start_reply" /\ can_start'

\* C34: a START of the sequence for request R launches a capture with the
\* parameters of R: no START is acknowledged while the most recent prepare
\* was rejected as busy, because the slot then still holds the request of an
\* earlier sequence
C34_StartFindsCurrentRequest ==
    [][StartAckStep /\ httpPc = "idle" => httpResp # "409 capture busy"]_vars

\* a capture is launched: start_slave_capture sets s_capture_in_progress
LaunchStep == ~s_capture_in_progress /\ s_capture_in_progress'

\* a START datagram is received by the sync task
StartRecvStep == udpPc = "recv" /\ udpPc' = "start_reply"

C36_FailedStartMeansNoLaunch ==
    (mPc = "done" /\ m_req.err_msg = "slave start failed") => sl_state # "launched"

\* the sync task sends its reply to a START datagram
StartReplyStep == udpPc = "start_reply" /\ udpPc' # "start_reply"

\* the sync task receives a READY datagram and sends its reply
ReadyReplyStep ==
    /\ udpPc = "recv"
    /\ udpPc' = "recv"
    /\ HasPrefix(rx_buf', READY)
    /\ <<rx_buf, udp_tx, replied>>' # <<rx_buf, udp_tx, replied>>

StopBreakStep == strPc = "stop_check" /\ strPc' = "exit1"

\* C38: after a capture sequence has completed and streaming has been
\* re-enabled, a stream is not terminated by the stop request that the
\* quiesce step of the capture left pending: with only the capture task
\* having requested a stop, an enabled stream leaves on the stop flag only
\* when the stop was requested while that stream was active
C38_StaleStopHarmless ==
    [][(/\ StopBreakStep
        /\ m_stream_enabled
        /\ capPc = "idle"
        /\ "httpd" \notin flag_writers.stop) => stop_seen]_vars

(***************************************************************************)
(* Queue-based variants: properties                                        *)
(***************************************************************************)
\* C39: every frame buffer obtained from the camera is returned to the
\* driver exactly once under every interleaving of the capture task and the
\* receiving task: never twice, and eventually once, so that no frame
\* buffer stays in the queue forever
C39_FramesReturnedOnce ==
    /\ [](\A f \in FrameIds : q_returned[f] <= 1)
    /\ \A f \in FrameIds : (q_obtained >= f) ~> (q_returned[f] = 1)
====
